---- MODULE Spec2Model ----
(***************************************************************************)
(* Model of the realtime-poker server: the hand engine (GameEngine.ts,     *)
(* src/unnamed/part_008 lines 871-1669) driven by the room controller     *)
(* (WebSocketServer.ts, src/unnamed/part_005) for one room.                *)
(*                                                                         *)
(* JavaScript Maps that are iterated are sequences in insertion order,    *)
(* array indices stay 0-based as in the source (sequence access adds 1),  *)
(* null is the empty sequence and a present value a one-element sequence. *)
(***************************************************************************)
EXTENDS Integers, Sequences, FiniteSets, TLC

VARIABLES
    players,      \* room.players: Map id -> Player, in insertion order
    gameState,    \* room.gameState: <<>> (null) or <<GameState>>
    clients,      \* this.clients: connection -> bound playerId
    actionTimer,  \* this.actionTimers.get(roomId): <<>> or <<[playerId, validActions]>>
    handTimers,   \* pending setTimeout(autoStartNextHand, 6000): previousDealerIndex each
    out,          \* messages sent by the handler that ran last
    lastCall,     \* the handler that ran last and what processAction returned
    startTotal,   \* history: chips held by all seats just before the blinds
    betsThisHand, \* history: accepted bet/raise actions in the current hand
    handsStarted, \* history: hands started so far
    potResult,    \* what a call of the pot calculator returned: <<>> or <<result>>
    rooms,        \* gameManager.rooms: the ids of the registered rooms
    seatsCreated  \* createPlayer calls so far; ids are drawn without repetition

vars == <<players, gameState, clients, actionTimer, handTimers, out, lastCall,
          startTotal, betsThisHand, handsStarted, potResult, rooms,
          seatsCreated>>

----------------------------------------------------------------------------
(* Bounds and inputs *)

MaxBets == 1           \* accepted bet/raise actions explored per hand
MaxHands == 2          \* hands explored per game
MaxSeatsCreated == 6   \* seats created per room

\* room.players when the first start-game arrives: the stacks of the seats
InitStacks == { <<1000, 1000>>, <<5, 15, 1000>>, <<20, 45, 60>> }

SeatCounts == { Len(stacks) : stacks \in InitStacks }

MaxSeatCount == CHOOSE n \in SeatCounts : \A m \in SeatCounts : m <= n

\* action.amount of a bet/raise intent; 0 stands for an omitted amount
Amounts == {0, 25}

\* seeds of the Math.random stream that drives a shuffle
Seeds == {1, 8}

\* playerIds no room holds
UnknownIds == {0}

----------------------------------------------------------------------------
(* Program constants *)

StartingChips == 1000
SmallBlind == 10
BigBlind == 20
NumCards == 52
NumRanks == 13
MaxPlayers == 6

ActionTypes == {"fold", "check", "call", "bet", "raise", "all-in"}

----------------------------------------------------------------------------
(* Generic helpers *)

Range(s) == { s[i] : i \in 1..Len(s) }

Min(a, b) == IF a < b THEN a ELSE b

Max(a, b) == IF a > b THEN a ELSE b

Take(s, n) == SubSeq(s, 1, Min(n, Len(s)))

Drop(s, n) == SubSeq(s, Min(n, Len(s)) + 1, Len(s))

RECURSIVE SumSeq(_)
SumSeq(s) == IF s = <<>> THEN 0 ELSE Head(s) + SumSeq(Tail(s))

RECURSIVE SetToSeqOf(_)
SetToSeqOf(S) ==
    IF S = {} THEN <<>>
    ELSE LET x == CHOOSE y \in S : TRUE IN <<x>> \o SetToSeqOf(S \ {x})

\* Map<string, number> kept in insertion order: a sequence of [k, v]
MapHas(m, k) == \E i \in 1..Len(m) : m[i].k = k

MapGet(m, k) ==
    IF MapHas(m, k) THEN m[CHOOSE i \in 1..Len(m) : m[i].k = k].v ELSE 0

MapSet(m, k, v) ==
    IF MapHas(m, k)
    THEN [i \in 1..Len(m) |-> IF m[i].k = k THEN [k |-> k, v |-> v] ELSE m[i]]
    ELSE Append(m, [k |-> k, v |-> v])

MapValues(m) == [i \in 1..Len(m) |-> m[i].v]

\* room.players
HasPlayer(ps, id) == \E i \in 1..Len(ps) : ps[i].id = id

PlayerIndex(ps, id) == CHOOSE i \in 1..Len(ps) : ps[i].id = id

GetPlayer(ps, id) == ps[PlayerIndex(ps, id)]

PlayerIds(ps) == [i \in 1..Len(ps) |-> ps[i].id]

TotalChips(ps) == SumSeq([i \in 1..Len(ps) |-> ps[i].chips])

----------------------------------------------------------------------------
(* Deck *)

\* Card c of the unshuffled deck: suits outer, ranks inner
cardValue(c) == (c % NumRanks) + 2

cardSuit(c) == c \div NumRanks

UnshuffledDeck == [i \in 1..NumCards |-> i - 1]

\* Math.floor(Math.random() * (i + 1)) of shuffle step i, for the random
\* stream named by seed: any value in 0..i
RandomIndex(seed, i) == (seed * i + (seed \div (i + 1))) % (i + 1)

Swap(s, i, j) == [s EXCEPT ![i + 1] = s[j + 1], ![j + 1] = s[i + 1]]

RECURSIVE FisherYates(_, _, _)
FisherYates(shuffled, i, seed) ==
    IF i <= 0 THEN shuffled
    ELSE FisherYates(Swap(shuffled, i, RandomIndex(seed, i)), i - 1, seed)

shuffleDeck(deck, seed) == FisherYates(deck, Len(deck) - 1, seed)

createDeck(seed) == shuffleDeck(UnshuffledDeck, seed)

----------------------------------------------------------------------------
(* Hand start *)

NewPlayer(id, chips) ==
    [id |-> id, chips |-> chips, bet |-> 0, hand |-> <<>>, status |-> "waiting",
     isDealer |-> FALSE, isSmallBlind |-> FALSE, isBigBlind |-> FALSE]

\* PostBlind adding the nominal blind to the pot although a short seat
\* pays less
PostBlindNominal(st, id, blind) ==
    LET p == GetPlayer(st.players, id)
        amount == Min(p.chips, blind)
        i == PlayerIndex(st.players, id)
    IN  [players |-> [st.players EXCEPT ![i] =
                        [p EXCEPT !.chips = p.chips - amount, !.bet = amount]],
         gs |-> [st.gs EXCEPT
                   !.roundBets = [@ EXCEPT ![id] = amount],
                   !.playerContributions = MapSet(@, id, amount),
                   !.pot = @ + blind]]

\* The blind posting block shared by startGame and startNextHand
PostBlind(st, id, blind) ==
    LET p == GetPlayer(st.players, id)
        amount == Min(p.chips, blind)
        i == PlayerIndex(st.players, id)
    IN  [players |-> [st.players EXCEPT ![i] =
                        [p EXCEPT !.chips = p.chips - amount, !.bet = amount]],
         gs |-> [st.gs EXCEPT
                   !.roundBets = [@ EXCEPT ![id] = amount],
                   !.playerContributions = MapSet(@, id, amount),
                   !.pot = @ + amount]]

\* Deal two cards to each seat of playerOrder in order and set the flags
DealSeats(ps, playerOrder, deck, dealerIndex, smallBlindIndex, bigBlindIndex) ==
    [k \in 1..Len(ps) |->
        IF \E i \in 1..Len(playerOrder) : playerOrder[i] = ps[k].id
        THEN LET i == (CHOOSE x \in 1..Len(playerOrder) : playerOrder[x] = ps[k].id) - 1
             IN  [ps[k] EXCEPT !.hand = SubSeq(deck, 2 * i + 1, 2 * i + 2),
                               !.status = "active",
                               !.bet = 0,
                               !.isDealer = (i = dealerIndex),
                               !.isSmallBlind = (i = smallBlindIndex),
                               !.isBigBlind = (i = bigBlindIndex)]
        ELSE ps[k]]

NewGameState(playerOrder, deck, dealerIndex, bigBlindIndex, firstToActIndex) ==
    [phase |-> "pre-flop",
     deck |-> deck,
     communityCards |-> <<>>,
     pot |-> 0,
     currentBet |-> BigBlind,
     minRaise |-> BigBlind,
     bigBlind |-> BigBlind,
     currentPlayerIndex |-> firstToActIndex,
     dealerIndex |-> dealerIndex,
     playerOrder |-> playerOrder,
     roundBets |-> [id \in Range(playerOrder) |-> 0],
     playerContributions |-> <<>>,
     playersActed |-> {},
     lastRaiser |-> <<playerOrder[bigBlindIndex + 1]>>,
     handNumber |-> 1]

startGame(ps, dealerIndex, seed) ==
    LET playerOrder == PlayerIds(ps)
        numPlayers == Len(playerOrder)
        deck == createDeck(seed)
        smallBlindIndex == (dealerIndex + 1) % numPlayers
        bigBlindIndex == (dealerIndex + 2) % numPlayers
        firstToActIndex == (dealerIndex + 3) % numPlayers
        dealt == DealSeats(ps, playerOrder, deck, dealerIndex,
                           smallBlindIndex, bigBlindIndex)
        gs0 == NewGameState(playerOrder, Drop(deck, 2 * numPlayers), dealerIndex,
                            bigBlindIndex, firstToActIndex)
        sb == PostBlind([players |-> dealt, gs |-> gs0],
                        playerOrder[smallBlindIndex + 1], SmallBlind)
    IN  PostBlind(sb, playerOrder[bigBlindIndex + 1], BigBlind)

startNextHand(ps, previousDealerIndex, previousHandNumber, seed) ==
    LET cleared == [k \in 1..Len(ps) |->
                      [ps[k] EXCEPT !.isDealer = FALSE, !.isSmallBlind = FALSE,
                                    !.isBigBlind = FALSE, !.hand = <<>>, !.bet = 0,
                                    !.status = IF ps[k].chips <= 0 THEN "out" ELSE @]]
        playerOrder == SelectSeq(PlayerIds(cleared),
                                 LAMBDA id : GetPlayer(cleared, id).status # "out")
        numPlayers == Len(playerOrder)
        deck == createDeck(seed)
        dealerIndex == (previousDealerIndex + 1) % numPlayers
        smallBlindIndex == (dealerIndex + 1) % numPlayers
        bigBlindIndex == (dealerIndex + 2) % numPlayers
        firstToActIndex == IF numPlayers = 2 THEN smallBlindIndex
                           ELSE (dealerIndex + 3) % numPlayers
        dealt == DealSeats(cleared, playerOrder, deck, dealerIndex,
                           smallBlindIndex, bigBlindIndex)
        gs0 == [NewGameState(playerOrder, Drop(deck, 2 * numPlayers), dealerIndex,
                             bigBlindIndex, firstToActIndex)
                  EXCEPT !.handNumber = previousHandNumber + 1]
        sb == PostBlind([players |-> dealt, gs |-> gs0],
                        playerOrder[smallBlindIndex + 1], SmallBlind)
    IN  IF numPlayers < 2
        THEN [players |-> cleared, gs |-> <<>>]
        ELSE LET st == PostBlind(sb, playerOrder[bigBlindIndex + 1], BigBlind)
             IN  [players |-> st.players, gs |-> <<st.gs>>]

----------------------------------------------------------------------------
(* Legal actions *)

\* getValidActions offering a bet or raise to a seat whose chips only just
\* reach the call (>= for >)
getValidActionsLoose(gs, player) ==
    LET playerBet == gs.roundBets[player.id]
        toCall == gs.currentBet - playerBet
    IN  IF player.status # "active" THEN <<>>
        ELSE <<"fold">>
             \o (IF toCall = 0 THEN <<"check">> ELSE <<>>)
             \o (IF toCall > 0 /\ player.chips > 0 THEN <<"call">> ELSE <<>>)
             \o (IF player.chips >= toCall
                 THEN (IF gs.currentBet = 0 THEN <<"bet">> ELSE <<"raise">>)
                 ELSE <<>>)
             \o (IF player.chips > 0 THEN <<"all-in">> ELSE <<>>)

\* getValidActions without the test of the seat's status
getValidActionsAnyStatus(gs, player) ==
    LET playerBet == gs.roundBets[player.id]
        toCall == gs.currentBet - playerBet
    IN  <<"fold">>
        \o (IF toCall = 0 THEN <<"check">> ELSE <<>>)
        \o (IF toCall > 0 /\ player.chips > 0 THEN <<"call">> ELSE <<>>)
        \o (IF player.chips > toCall
            THEN (IF gs.currentBet = 0 THEN <<"bet">> ELSE <<"raise">>)
            ELSE <<>>)
        \o (IF player.chips > 0 THEN <<"all-in">> ELSE <<>>)

getValidActions(gs, player) ==
    LET playerBet == gs.roundBets[player.id]
        toCall == gs.currentBet - playerBet
    IN  IF player.status # "active" THEN <<>>
        ELSE <<"fold">>
             \o (IF toCall = 0 THEN <<"check">> ELSE <<>>)
             \o (IF toCall > 0 /\ player.chips > 0 THEN <<"call">> ELSE <<>>)
             \o (IF player.chips > toCall
                 THEN (IF gs.currentBet = 0 THEN <<"bet">> ELSE <<"raise">>)
                 ELSE <<>>)
             \o (IF player.chips > 0 THEN <<"all-in">> ELSE <<>>)

----------------------------------------------------------------------------
(* Turn and phase advance *)

StatusOf(ps, id) == GetPlayer(ps, id).status

getActivePlayers(gs, ps) ==
    SelectSeq([i \in 1..Len(gs.playerOrder) |-> GetPlayer(ps, gs.playerOrder[i])],
              LAMBDA p : p.status = "active" \/ p.status = "all-in")

\* isBettingRoundComplete without the test that every active seat has acted
isBettingRoundCompleteBetsOnly(gs, ps) ==
    LET activePlayers == { id \in Range(gs.playerOrder) : StatusOf(ps, id) = "active" }
    IN  \A id \in activePlayers : ~(gs.roundBets[id] < gs.currentBet)

isBettingRoundComplete(gs, ps) ==
    LET activePlayers == { id \in Range(gs.playerOrder) : StatusOf(ps, id) = "active" }
    IN  /\ \A id \in activePlayers : id \in gs.playersActed
        /\ \A id \in activePlayers : ~(gs.roundBets[id] < gs.currentBet)

\* The first index start, start+1, ... (mod numPlayers) whose seat is active,
\* or fallback when no seat is
FirstActiveFrom(gs, ps, start, fallback) ==
    LET numPlayers == Len(gs.playerOrder)
        hits == { i \in 0..(numPlayers - 1) :
                    StatusOf(ps, gs.playerOrder[((start + i) % numPlayers) + 1]) = "active" }
    IN  IF hits = {} THEN fallback
        ELSE (start + (CHOOSE i \in hits : \A k \in hits : i <= k)) % numPlayers

advanceToNextPlayer(gs, ps) ==
    [gs EXCEPT !.currentPlayerIndex =
        FirstActiveFrom(gs, ps, (gs.currentPlayerIndex + 1) % Len(gs.playerOrder),
                        gs.currentPlayerIndex)]

canAnyoneAct(gs, ps) ==
    Cardinality({ i \in 1..Len(gs.playerOrder) :
                    StatusOf(ps, gs.playerOrder[i]) = "active" }) >= 2

\* advancePhase leaving currentBet as the street before left it
advancePhaseKeepingCurrentBet(gs, ps) ==
    LET ps1 == [k \in 1..Len(ps) |-> [ps[k] EXCEPT !.bet = 0]]
        reset == [gs EXCEPT !.roundBets = [id \in DOMAIN @ |-> 0],
                            !.playersActed = {},
                            !.minRaise = gs.bigBlind,
                            !.lastRaiser = <<>>,
                            !.currentPlayerIndex =
                                FirstActiveFrom(gs, ps1,
                                    (gs.dealerIndex + 1) % Len(gs.playerOrder),
                                    gs.currentPlayerIndex)]
        count == CASE gs.phase = "pre-flop" -> 3
                   [] gs.phase = "flop" -> 1
                   [] gs.phase = "turn" -> 1
                   [] OTHER -> 0
        next == CASE gs.phase = "pre-flop" -> "flop"
                  [] gs.phase = "flop" -> "turn"
                  [] gs.phase = "turn" -> "river"
                  [] gs.phase = "river" -> "showdown"
                  [] OTHER -> gs.phase
        dealt == [reset EXCEPT !.phase = next,
                               !.communityCards = @ \o Take(reset.deck, count),
                               !.deck = Drop(@, count)]
    IN  [players |-> ps1,
         gs |-> dealt,
         result |-> IF gs.phase \notin {"pre-flop", "flop", "turn"} THEN "true"
                    ELSE IF ~canAnyoneAct(dealt, ps1) THEN "runout"
                    ELSE "false"]

\* advancePhase dealing the board with slice, which leaves the deck whole
advancePhaseKeepingDeck(gs, ps) ==
    LET ps1 == [k \in 1..Len(ps) |-> [ps[k] EXCEPT !.bet = 0]]
        reset == [gs EXCEPT !.roundBets = [id \in DOMAIN @ |-> 0],
                            !.playersActed = {},
                            !.currentBet = 0,
                            !.minRaise = gs.bigBlind,
                            !.lastRaiser = <<>>,
                            !.currentPlayerIndex =
                                FirstActiveFrom(gs, ps1,
                                    (gs.dealerIndex + 1) % Len(gs.playerOrder),
                                    gs.currentPlayerIndex)]
        count == CASE gs.phase = "pre-flop" -> 3
                   [] gs.phase = "flop" -> 1
                   [] gs.phase = "turn" -> 1
                   [] OTHER -> 0
        next == CASE gs.phase = "pre-flop" -> "flop"
                  [] gs.phase = "flop" -> "turn"
                  [] gs.phase = "turn" -> "river"
                  [] gs.phase = "river" -> "showdown"
                  [] OTHER -> gs.phase
        dealt == [reset EXCEPT !.phase = next,
                               !.communityCards = @ \o Take(reset.deck, count)]
    IN  [players |-> ps1,
         gs |-> dealt,
         result |-> IF gs.phase \notin {"pre-flop", "flop", "turn"} THEN "true"
                    ELSE IF ~canAnyoneAct(dealt, ps1) THEN "runout"
                    ELSE "false"]

\* result is "true", "false" or "runout"
advancePhase(gs, ps) ==
    LET ps1 == [k \in 1..Len(ps) |-> [ps[k] EXCEPT !.bet = 0]]
        reset == [gs EXCEPT !.roundBets = [id \in DOMAIN @ |-> 0],
                            !.playersActed = {},
                            !.currentBet = 0,
                            !.minRaise = gs.bigBlind,
                            !.lastRaiser = <<>>,
                            !.currentPlayerIndex =
                                FirstActiveFrom(gs, ps1,
                                    (gs.dealerIndex + 1) % Len(gs.playerOrder),
                                    gs.currentPlayerIndex)]
        count == CASE gs.phase = "pre-flop" -> 3
                   [] gs.phase = "flop" -> 1
                   [] gs.phase = "turn" -> 1
                   [] OTHER -> 0
        next == CASE gs.phase = "pre-flop" -> "flop"
                  [] gs.phase = "flop" -> "turn"
                  [] gs.phase = "turn" -> "river"
                  [] gs.phase = "river" -> "showdown"
                  [] OTHER -> gs.phase
        dealt == [reset EXCEPT !.phase = next,
                               !.communityCards = @ \o Take(reset.deck, count),
                               !.deck = Drop(@, count)]
    IN  [players |-> ps1,
         gs |-> dealt,
         result |-> IF gs.phase \notin {"pre-flop", "flop", "turn"} THEN "true"
                    ELSE IF ~canAnyoneAct(dealt, ps1) THEN "runout"
                    ELSE "false"]

\* What advanceRunoutPhase makes of the outcome r of advancePhase
runoutResult(r) ==
    [players |-> r.players, gs |-> r.gs,
     result |-> IF r.result = "runout" THEN "runout" ELSE "showdown"]

advanceRunoutPhase(gs, ps) == runoutResult(advancePhase(gs, ps))

----------------------------------------------------------------------------
(* Action application *)

Fail(gs, ps, error) ==
    [players |-> ps, gs |-> gs,
     result |-> [success |-> FALSE, error |-> error, roundComplete |-> FALSE,
                 handComplete |-> FALSE, runout |-> FALSE]]

SetPlayer(ps, p) == [ps EXCEPT ![PlayerIndex(ps, p.id)] = p]

\* Commit overwriting the seat's contribution instead of adding to it
CommitOverwriting(gs, ps, p, add, status) ==
    [players |-> SetPlayer(ps, [p EXCEPT !.chips = @ - add, !.bet = @ + add,
                                         !.status = status]),
     gs |-> [gs EXCEPT !.pot = @ + add,
                       !.roundBets = [@ EXCEPT ![p.id] = @ + add],
                       !.playerContributions = MapSet(@, p.id, add)]]

\* Transfer add chips of seat p into bet, pot, roundBets and contributions
Commit(gs, ps, p, add, status) ==
    [players |-> SetPlayer(ps, [p EXCEPT !.chips = @ - add, !.bet = @ + add,
                                         !.status = status]),
     gs |-> [gs EXCEPT !.pot = @ + add,
                       !.roundBets = [@ EXCEPT ![p.id] = @ + add],
                       !.playerContributions = MapSet(@, p.id, MapGet(@, p.id) + add)]]

applyCall(gs, ps, p) ==
    LET toCall == gs.currentBet - gs.roundBets[p.id]
        callAmount == Min(toCall, p.chips)
    IN  Commit(gs, ps, p, callAmount,
               IF p.chips - callAmount = 0 THEN "all-in" ELSE p.status)

minBetTotal(gs, action) == IF action = "bet" THEN gs.bigBlind ELSE gs.currentBet * 2

targetTotalOf(gs, action, amount) ==
    IF amount # 0 THEN amount ELSE minBetTotal(gs, action)

betRejected(gs, p, action, amount) ==
    LET targetTotal == targetTotalOf(gs, action, amount)
    IN  /\ targetTotal < minBetTotal(gs, action)
        /\ targetTotal < p.chips + gs.roundBets[p.id]

applyBetRaise(gs, ps, p, action, amount) ==
    LET playerBet == gs.roundBets[p.id]
        targetTotal == targetTotalOf(gs, action, amount)
        amountToAdd == targetTotal - playerBet
        actualAdd == Min(amountToAdd, p.chips)
        newTotal == playerBet + actualAdd
        c == Commit(gs, ps, p, actualAdd,
                    IF p.chips - actualAdd = 0 THEN "all-in" ELSE p.status)
    IN  [players |-> c.players,
         gs |-> [c.gs EXCEPT !.minRaise = newTotal,
                             !.currentBet = newTotal,
                             !.playersActed = {p.id},
                             !.lastRaiser = <<p.id>>]]

\* applyAllIn taking the stack of the seat for the bet to match, however
\* small
applyAllInSettingBet(gs, ps, p) ==
    LET allInAmount == p.chips
        newBet == gs.roundBets[p.id] + allInAmount
        c == Commit(gs, ps, p, allInAmount, "all-in")
    IN  [players |-> c.players,
         gs |-> [c.gs EXCEPT !.currentBet = newBet,
                             !.playersActed = {p.id},
                             !.lastRaiser = <<p.id>>]]

applyAllIn(gs, ps, p) ==
    LET allInAmount == p.chips
        newBet == gs.roundBets[p.id] + allInAmount
        c == Commit(gs, ps, p, allInAmount, "all-in")
    IN  IF newBet > gs.currentBet
        THEN [players |-> c.players,
              gs |-> [c.gs EXCEPT !.currentBet = newBet,
                                  !.playersActed = {p.id},
                                  !.lastRaiser = <<p.id>>]]
        ELSE c

\* The switch of processAction, after playersActed.add(playerId)
applyAction(gs, ps, p, action, amount) ==
    CASE action = "fold" ->
            [players |-> SetPlayer(ps, [p EXCEPT !.status = "folded"]), gs |-> gs]
      [] action = "check" -> [players |-> ps, gs |-> gs]
      [] action = "call" -> applyCall(gs, ps, p)
      [] action \in {"bet", "raise"} -> applyBetRaise(gs, ps, p, action, amount)
      [] action = "all-in" -> applyAllIn(gs, ps, p)

\* A successful ActionResult
Ok(roundComplete, handComplete, runout) ==
    [success |-> TRUE, error |-> "", roundComplete |-> roundComplete,
     handComplete |-> handComplete, runout |-> runout]

\* What processAction returns when the round is complete and advancePhase
\* gave r
roundCompleteResult(r) ==
    [players |-> r.players, gs |-> r.gs,
     result |-> IF r.result = "runout" THEN Ok(TRUE, FALSE, TRUE)
                ELSE Ok(TRUE, r.result = "true", FALSE)]

\* What processAction does once the action has been applied
afterAction(gs, ps) ==
    IF Len(getActivePlayers(gs, ps)) = 1
    THEN [players |-> ps, gs |-> [gs EXCEPT !.phase = "complete"],
          result |-> Ok(TRUE, TRUE, FALSE)]
    ELSE IF isBettingRoundComplete(gs, ps)
    THEN roundCompleteResult(advancePhase(gs, ps))
    ELSE [players |-> ps, gs |-> advanceToNextPlayer(gs, ps),
          result |-> Ok(FALSE, FALSE, FALSE)]

\* afterAction on the players and state a the switch left
afterApplied(a) == afterAction(a.gs, a.players)

\* processAction from playersActed.add(playerId) on, for the seat p
actAs(acted, ps, p, action, amount) ==
    IF action \in {"bet", "raise"} /\ betRejected(acted, p, action, amount)
    THEN Fail(acted, ps, "Minimum raise")
    ELSE afterApplied(applyAction(acted, ps, p, action, amount))

\* processAction without the turn check
processActionAnySeat(gs, ps, playerId, action, amount) ==
    IF ~HasPlayer(ps, playerId) THEN Fail(gs, ps, "Player not found")
    ELSE IF action \notin Range(getValidActions(gs, GetPlayer(ps, playerId)))
    THEN Fail(gs, ps, "Invalid action")
    ELSE actAs([gs EXCEPT !.playersActed = @ \cup {playerId}], ps,
               GetPlayer(ps, playerId), action, amount)

processAction(gs, ps, playerId, action, amount) ==
    IF ~HasPlayer(ps, playerId) THEN Fail(gs, ps, "Player not found")
    ELSE IF playerId # gs.playerOrder[gs.currentPlayerIndex + 1]
    THEN Fail(gs, ps, "Not your turn")
    ELSE IF action \notin Range(getValidActions(gs, GetPlayer(ps, playerId)))
    THEN Fail(gs, ps, "Invalid action")
    ELSE actAs([gs EXCEPT !.playersActed = @ \cup {playerId}], ps,
               GetPlayer(ps, playerId), action, amount)

----------------------------------------------------------------------------
(* Hand evaluator *)

\* A score is category * 10^10 + low with low < 10^10, kept as the pair
\* [cat, low]; numeric order is the lexicographic order of the pair.
Score(cat, low) == [cat |-> cat, low |-> low]

ScoreGreater(a, b) == a.cat > b.cat \/ (a.cat = b.cat /\ a.low > b.low)

Pow100(k) == CASE k = 0 -> 1 [] k = 1 -> 100 [] k = 2 -> 10000
               [] k = 3 -> 1000000 [] k = 4 -> 100000000

\* getCombinations(cards, 5) as index tuples, in the order the recursion
\* emits them (lexicographic)
ComboBefore(a, b) ==
    \E i \in 1..5 : a[i] < b[i] /\ \A k \in 1..(i - 1) : a[k] = b[k]

RECURSIVE OrderCombos(_)
OrderCombos(S) ==
    IF S = {} THEN <<>>
    ELSE LET first == CHOOSE c \in S : \A d \in S \ {c} : ComboBefore(c, d)
         IN  <<first>> \o OrderCombos(S \ {first})

getCombinations == [n \in 5..7 |->
    OrderCombos({ c \in [1..5 -> 1..n] : \A i \in 1..4 : c[i] < c[i + 1] })]

isFlush(cards) == \A i \in 1..Len(cards) : cardSuit(cards[i]) = cardSuit(cards[1])

isStraight(cards) ==
    LET values == SortSeq([i \in 1..Len(cards) |-> cardValue(cards[i])],
                          LAMBDA a, b : a < b)
    IN  \/ values[5] = 14 /\ values[1] = 2 /\ values[2] = 3 /\ values[3] = 4
           /\ values[4] = 5
        \/ \A i \in 2..Len(values) : values[i] = values[i - 1] + 1

getRankCounts(cards) ==
    [v \in { cardValue(cards[i]) : i \in 1..Len(cards) } |->
        Cardinality({ i \in 1..Len(cards) : cardValue(cards[i]) = v })]

\* Array.from(counts.entries()) sorted by count desc, then value desc
RECURSIVE SortedCounts(_, _)
SortedCounts(counts, left) ==
    IF left = {} THEN <<>>
    ELSE LET top == CHOOSE v \in left : \A w \in left :
                        \/ counts[v] > counts[w]
                        \/ counts[v] = counts[w] /\ v >= w
         IN  <<[value |-> top, count |-> counts[top]]>>
             \o SortedCounts(counts, left \ {top})

\* values[0] * 100000000 + values[1] * 1000000 + ... + values[4]
HighCardValue(values) ==
    values[1] * Pow100(4) + values[2] * Pow100(3) + values[3] * Pow100(2)
    + values[4] * Pow100(1) + values[5]

\* The ranking ladder of scoreHand, once its locals are computed
scoreOf(flush, straight, values, countValues, kickers) ==
    IF flush /\ straight /\ values[1] = 14 /\ values[5] = 10
    THEN [rank |-> "royal-flush", score |-> Score(9, 0)]
    ELSE IF flush /\ straight
    THEN [rank |-> "straight-flush",
          score |-> Score(8, IF values[1] = 14 /\ values[2] = 5 THEN 5 ELSE values[1])]
    ELSE IF countValues[1].count = 4
    THEN [rank |-> "four-of-a-kind",
          score |-> Score(7, countValues[1].value * Pow100(4) + countValues[2].value)]
    ELSE IF countValues[1].count = 3 /\ countValues[2].count = 2
    THEN [rank |-> "full-house",
          score |-> Score(6, countValues[1].value * Pow100(4) + countValues[2].value)]
    ELSE IF flush
    THEN [rank |-> "flush", score |-> Score(5, HighCardValue(values))]
    ELSE IF straight
    THEN [rank |-> "straight",
          score |-> Score(4, IF values[1] = 14 /\ values[2] = 5 THEN 5 ELSE values[1])]
    ELSE IF countValues[1].count = 3
    THEN [rank |-> "three-of-a-kind",
          score |-> Score(3, countValues[1].value * Pow100(4)
                             + kickers[1] * Pow100(3) + kickers[2] * Pow100(2))]
    ELSE IF countValues[1].count = 2 /\ countValues[2].count = 2
    THEN [rank |-> "two-pair",
          score |-> Score(2, Max(countValues[1].value, countValues[2].value) * Pow100(4)
                             + Min(countValues[1].value, countValues[2].value) * Pow100(3)
                             + countValues[3].value)]
    ELSE IF countValues[1].count = 2
    THEN [rank |-> "pair",
          score |-> Score(1, countValues[1].value * Pow100(4)
                             + kickers[1] * Pow100(3) + kickers[2] * Pow100(2)
                             + kickers[3] * Pow100(1))]
    ELSE [rank |-> "high-card", score |-> Score(0, HighCardValue(values))]

\* The kickers of scoreHand: the values after the first of countValues,
\* highest first
kickersOf(countValues) ==
    SortSeq([i \in 1..(Len(countValues) - 1) |-> countValues[i + 1].value],
            LAMBDA a, b : a > b)

\* scoreHand taking the ace of a wheel for its high card
scoreHandAceHighWheel(cards) ==
    IF isStraight(cards) /\ { cardValue(cards[i]) : i \in 1..Len(cards) } = {14, 2, 3, 4, 5}
    THEN [rank |-> IF isFlush(cards) THEN "straight-flush" ELSE "straight",
          score |-> Score(IF isFlush(cards) THEN 8 ELSE 4, 14)]
    ELSE scoreOf(isFlush(cards), isStraight(cards),
                 SortSeq([i \in 1..Len(cards) |-> cardValue(cards[i])], LAMBDA a, b : a > b),
                 SortedCounts(getRankCounts(cards), DOMAIN getRankCounts(cards)),
                 kickersOf(SortedCounts(getRankCounts(cards), DOMAIN getRankCounts(cards))))

scoreHand(cards) ==
    scoreOf(isFlush(cards), isStraight(cards),
            SortSeq([i \in 1..Len(cards) |-> cardValue(cards[i])], LAMBDA a, b : a > b),
            SortedCounts(getRankCounts(cards), DOMAIN getRankCounts(cards)),
            kickersOf(SortedCounts(getRankCounts(cards), DOMAIN getRankCounts(cards))))

\* The body of the loop of evaluateHand: keep the better of best and combo,
\* the first found on a tie
keepBest(best, combo, result) ==
    IF ScoreGreater(result.score, best.score)
    THEN [rank |-> result.rank, score |-> result.score, cards |-> combo]
    ELSE best

\* The loop of evaluateHand over the combinations from index i on
RECURSIVE bestCombination(_, _, _, _)
bestCombination(cards, combos, i, best) ==
    IF i > Len(combos) THEN best
    ELSE bestCombination(cards, combos, i + 1,
                         keepBest(best, [k \in 1..5 |-> cards[combos[i][k]]],
                                  scoreHand([k \in 1..5 |-> cards[combos[i][k]]])))

evaluateCards(cards) ==
    IF Len(cards) < 5
    THEN [rank |-> "high-card", cards |-> <<>>, score |-> Score(0, 0)]
    ELSE bestCombination(cards, getCombinations[Len(cards)], 1,
                         [rank |-> "high-card", score |-> Score(0, 0), cards |-> <<>>])

\* The seven-card hands a showdown can see: hole cards of seat i of n and
\* the board, for each shuffle
ShowdownHands ==
    { SubSeq(createDeck(seed), 2 * i + 1, 2 * i + 2)
        \o SubSeq(createDeck(seed), 2 * n + 1, 2 * n + 5) :
      seed \in Seeds, n \in SeatCounts, i \in 0..(MaxSeatCount - 1) }

\* evaluateCards tabulated once for those hands
EvaluatedShowdownHands == [cards \in ShowdownHands |-> evaluateCards(cards)]

\* The HandResult evaluateHand returns for the best hand e
handResultOf(e, playerId) ==
    [playerId |-> playerId, rank |-> e.rank, cards |-> e.cards, score |-> e.score]

evaluateHand(cards, playerId) ==
    handResultOf(IF cards \in ShowdownHands THEN EvaluatedShowdownHands[cards]
                 ELSE evaluateCards(cards),
                 playerId)

----------------------------------------------------------------------------
(* Side pots and winners *)

\* MergeInto keeping the amount of the later pot instead of the sum
RECURSIVE MergeIntoKeepingLast(_, _)
MergeIntoKeepingLast(merged, pots) ==
    IF pots = <<>> THEN merged
    ELSE IF /\ Len(merged) > 0
            /\ Len(merged[Len(merged)].eligiblePlayerIds) = Len(Head(pots).eligiblePlayerIds)
            /\ Range(merged[Len(merged)].eligiblePlayerIds)
                  \subseteq Range(Head(pots).eligiblePlayerIds)
    THEN MergeIntoKeepingLast([merged EXCEPT ![Len(merged)].amount = Head(pots).amount],
                              Tail(pots))
    ELSE MergeIntoKeepingLast(Append(merged, Head(pots)), Tail(pots))

\* Merge consecutive pots with identical eligible players
RECURSIVE MergeInto(_, _)
MergeInto(merged, pots) ==
    IF pots = <<>> THEN merged
    ELSE LET pot == Head(pots)
             n == Len(merged)
         IN  IF /\ n > 0
                /\ Len(merged[n].eligiblePlayerIds) = Len(pot.eligiblePlayerIds)
                /\ Range(merged[n].eligiblePlayerIds) \subseteq Range(pot.eligiblePlayerIds)
             THEN MergeInto([merged EXCEPT ![n].amount = @ + pot.amount], Tail(pots))
             ELSE MergeInto(Append(merged, pot), Tail(pots))

MergePots(pots) == MergeInto(<<>>, pots)

calculateSidePots(playerContributions, ps) ==
    LET contributions ==
            SelectSeq([i \in 1..Len(playerContributions) |->
                         [playerId |-> playerContributions[i].k,
                          amount |-> playerContributions[i].v,
                          folded |-> \/ ~HasPlayer(ps, playerContributions[i].k)
                                     \/ StatusOf(ps, playerContributions[i].k) = "folded"]],
                      LAMBDA c : c.amount > 0)
        levelSet == { contributions[i].amount : i \in 1..Len(contributions) }
        previousLevel(level) ==
            IF \E l \in levelSet : l < level
            THEN CHOOSE l \in levelSet : l < level /\ \A m \in levelSet : m < level => m <= l
            ELSE 0
        levels == SortSeq(SetToSeqOf(levelSet), LAMBDA a, b : a < b)
        potAt(level) ==
            LET contributorsAtLevel == SelectSeq(contributions, LAMBDA c : c.amount >= level)
                eligible == SelectSeq(contributorsAtLevel, LAMBDA c : ~c.folded)
            IN  [amount |-> (level - previousLevel(level)) * Len(contributorsAtLevel),
                 eligiblePlayerIds |-> [i \in 1..Len(eligible) |-> eligible[i].playerId]]
        pots == [i \in 1..Len(levels) |-> potAt(levels[i])]
    IN  MergePots(pots)

\* awardPot letting every seat with a hand compete for every pot
awardPotToAnySeat(totalWinnings, pot, handCache) ==
    LET eligible == SetToSeqOf(DOMAIN handCache)
        better(id) == { o \in Range(eligible) :
                          ScoreGreater(handCache[o].score, handCache[id].score) }
        potWinners == SelectSeq(eligible, LAMBDA id : better(id) = {})
        share == pot.amount \div Len(potWinners)
        remainder == pot.amount - share * Len(potWinners)
    IN  IF Len(eligible) = 0 THEN totalWinnings
        ELSE MapSet(MapSet(totalWinnings, potWinners[1],
                           MapGet(totalWinnings, potWinners[1]) + share + remainder),
                    potWinners[Len(potWinners)],
                    MapGet(MapSet(totalWinnings, potWinners[1],
                                  MapGet(totalWinnings, potWinners[1]) + share + remainder),
                           potWinners[Len(potWinners)])
                      + (IF Len(potWinners) > 1 THEN share ELSE 0))

\* awardPot giving the odd chips to the last tied seat
awardPotOddChipsToLast(totalWinnings, pot, handCache) ==
    LET eligible == SelectSeq(pot.eligiblePlayerIds, LAMBDA id : id \in DOMAIN handCache)
        better(id) == { o \in Range(eligible) :
                          ScoreGreater(handCache[o].score, handCache[id].score) }
        potWinners == SelectSeq(eligible, LAMBDA id : better(id) = {})
        share == pot.amount \div Len(potWinners)
        remainder == pot.amount - share * Len(potWinners)
        RECURSIVE Credit(_, _)
        Credit(tw, i) ==
            IF i > Len(potWinners) THEN tw
            ELSE Credit(MapSet(tw, potWinners[i],
                               MapGet(tw, potWinners[i]) + share
                                 + (IF i = Len(potWinners) THEN remainder ELSE 0)),
                        i + 1)
    IN  IF Len(eligible) = 0 THEN totalWinnings
        ELSE IF Len(eligible) = 1
        THEN MapSet(totalWinnings, eligible[1],
                    MapGet(totalWinnings, eligible[1]) + pot.amount)
        ELSE Credit(totalWinnings, 1)

\* One iteration of the loop over the side pots
awardPot(totalWinnings, pot, handCache) ==
    LET eligible == SelectSeq(pot.eligiblePlayerIds, LAMBDA id : id \in DOMAIN handCache)
        better(id) == { o \in Range(eligible) :
                          ScoreGreater(handCache[o].score, handCache[id].score) }
        potWinners == SelectSeq(eligible, LAMBDA id : better(id) = {})
        share == pot.amount \div Len(potWinners)
        remainder == pot.amount - share * Len(potWinners)
        RECURSIVE Credit(_, _)
        Credit(tw, i) ==
            IF i > Len(potWinners) THEN tw
            ELSE Credit(MapSet(tw, potWinners[i],
                               MapGet(tw, potWinners[i]) + share
                                 + (IF i = 1 THEN remainder ELSE 0)),
                        i + 1)
    IN  IF Len(eligible) = 0 THEN totalWinnings
        ELSE IF Len(eligible) = 1
        THEN MapSet(totalWinnings, eligible[1],
                    MapGet(totalWinnings, eligible[1]) + pot.amount)
        ELSE Credit(totalWinnings, 1)

RECURSIVE awardPots(_, _, _)
awardPots(totalWinnings, pots, handCache) ==
    IF pots = <<>> THEN totalWinnings
    ELSE awardPots(awardPot(totalWinnings, Head(pots), handCache), Tail(pots), handCache)

\* winners.sort((a, b) => b.amount - a.amount), a stable sort
RECURSIVE InsertByAmount(_, _)
InsertByAmount(sorted, w) ==
    IF sorted = <<>> THEN <<w>>
    ELSE IF Head(sorted).amount >= w.amount
    THEN <<Head(sorted)>> \o InsertByAmount(Tail(sorted), w)
    ELSE <<w>> \o sorted

RECURSIVE SortByAmount(_, _)
SortByAmount(sorted, rest) ==
    IF rest = <<>> THEN sorted
    ELSE SortByAmount(InsertByAmount(sorted, Head(rest)), Tail(rest))

\* The hands of the seats still in the hand, evaluated once each
handCacheOf(gs, ps, activePlayers) ==
    [id \in { activePlayers[i].id : i \in 1..Len(activePlayers) } |->
        evaluateHand(GetPlayer(ps, id).hand \o gs.communityCards, id)]

\* The winners array built from totalWinnings, largest amount first
winnersOf(totalWinnings, handCache) ==
    SortByAmount(<<>>, [i \in 1..Len(totalWinnings) |->
                          [playerId |-> totalWinnings[i].k,
                           amount |-> totalWinnings[i].v,
                           handResult |-> handCache[totalWinnings[i].k]]])

\* determineWinners once sidePots and handCache are computed
distribute(sidePots, handCache) ==
    winnersOf(awardPots(<<>>, sidePots, handCache), handCache)

determineWinners(gs, ps) ==
    distribute(calculateSidePots(gs.playerContributions, ps),
               handCacheOf(gs, ps, getActivePlayers(gs, ps)))

----------------------------------------------------------------------------
(* Room controller: views *)

RoomId == "room"

toPlayerDTO(p) ==
    [id |-> p.id, chips |-> p.chips, bet |-> p.bet, handSize |-> Len(p.hand),
     status |-> p.status, isDealer |-> p.isDealer, isSmallBlind |-> p.isSmallBlind,
     isBigBlind |-> p.isBigBlind]

\* toShowdownPlayerDTO revealing every seat's cards at a showdown
toShowdownPlayerDTORevealAll(p, revealCards) ==
    [id |-> p.id, chips |-> p.chips, bet |-> p.bet, handSize |-> Len(p.hand),
     status |-> p.status, isDealer |-> p.isDealer, isSmallBlind |-> p.isSmallBlind,
     isBigBlind |-> p.isBigBlind,
     hand |-> IF revealCards THEN p.hand ELSE <<>>]

toShowdownPlayerDTO(p, revealCards) ==
    [id |-> p.id, chips |-> p.chips, bet |-> p.bet, handSize |-> Len(p.hand),
     status |-> p.status, isDealer |-> p.isDealer, isSmallBlind |-> p.isSmallBlind,
     isBigBlind |-> p.isBigBlind,
     hand |-> IF revealCards /\ (p.status = "active" \/ p.status = "all-in")
              THEN p.hand ELSE <<>>]

toGameStateDTO(S, forPlayerId) ==
    LET gs == S.gameState[1]
    IN  [phase |-> gs.phase,
         communityCards |-> gs.communityCards,
         pot |-> gs.pot,
         currentBet |-> gs.currentBet,
         minRaise |-> gs.minRaise,
         bigBlind |-> gs.bigBlind,
         currentPlayerId |-> gs.playerOrder[gs.currentPlayerIndex + 1],
         players |-> [i \in 1..Len(S.players) |-> toPlayerDTO(S.players[i])],
         myCards |-> IF HasPlayer(S.players, forPlayerId)
                     THEN GetPlayer(S.players, forPlayerId).hand ELSE <<>>]

\* The connections a broadcastToRoom reaches, in Map order
RoomClients(S) == SelectSeq(S.clients, LAMBDA c : c.roomId = <<RoomId>>)

Emit(S, msgs) == [S EXCEPT !.out = @ \o msgs]

sendError(S, ws, message) ==
    Emit(S, <<[type |-> "error", to |-> ws, message |-> message]>>)

broadcastToRoom(S, msg) ==
    LET cs == RoomClients(S)
    IN  Emit(S, [i \in 1..Len(cs) |-> [msg EXCEPT !.to = cs[i].ws]])

\* broadcastGameState ("game-started") and broadcastGameUpdate ("game-updated")
broadcastView(S, type) ==
    LET cs == SelectSeq(RoomClients(S), LAMBDA c : c.playerId # <<>>)
    IN  Emit(S, [i \in 1..Len(cs) |->
                   [type |-> type, to |-> cs[i].ws,
                    gameState |-> toGameStateDTO(S, cs[i].playerId[1])]])

broadcastGameState(S) == broadcastView(S, "game-started")

broadcastGameUpdate(S) == broadcastView(S, "game-updated")

----------------------------------------------------------------------------
(* Room controller: timers and handlers *)

clearActionTimer(S) == [S EXCEPT !.actionTimer = <<>>]

startActionTimer(S, playerId, validActions) ==
    [clearActionTimer(S) EXCEPT
        !.actionTimer = <<[playerId |-> playerId, validActions |-> validActions]>>]

sendActionRequired(S) ==
    IF S.gameState = <<>> THEN S
    ELSE LET gs == S.gameState[1]
             currentPlayerId == gs.playerOrder[gs.currentPlayerIndex + 1]
             validActions == getValidActions(gs, GetPlayer(S.players, currentPlayerId))
         IN  broadcastToRoom(startActionTimer(S, currentPlayerId, validActions),
                             [type |-> "action-required", to |-> 0,
                              playerId |-> currentPlayerId,
                              validActions |-> validActions])

RECURSIVE awardChips(_, _)
awardChips(ps, winners) ==
    IF winners = <<>> THEN ps
    ELSE LET w == Head(winners)
         IN  IF HasPlayer(ps, w.playerId)
             THEN awardChips(SetPlayer(ps, [GetPlayer(ps, w.playerId) EXCEPT
                                              !.chips = @ + w.amount]),
                             Tail(winners))
             ELSE awardChips(ps, Tail(winners))

\* The winners of a hand everyone else folded: the remaining seat takes the
\* pot with a placeholder hand result
foldWinners(playerId, pot) ==
    <<[playerId |-> playerId, amount |-> pot,
       handResult |-> [playerId |-> playerId, rank |-> "high-card", cards |-> <<>>,
                       score |-> Score(0, 0)]]>>

\* handleHandComplete from the broadcast on: awarded are the seats after the
\* winners were credited
announceHandComplete(S, gs, isShowdown, winners, awarded) ==
    [broadcastToRoom([clearActionTimer(S) EXCEPT !.players = awarded],
         [type |-> "hand-complete", to |-> 0,
          winners |-> winners,
          players |-> [i \in 1..Len(awarded) |->
                         toShowdownPlayerDTO(awarded[i], isShowdown)],
          communityCards |-> gs.communityCards,
          pot |-> gs.pot,
          isShowdown |-> isShowdown])
       EXCEPT !.gameState = <<>>,
              !.handTimers = Append(@, gs.dealerIndex)]

\* handleHandComplete from the award loop on
settleHand(S, gs, isShowdown, winners) ==
    announceHandComplete(S, gs, isShowdown, winners, awardChips(S.players, winners))

\* handleHandComplete taking a single remaining seat to a showdown too
handleHandCompleteShowingDown(S) ==
    IF S.gameState = <<>> THEN S
    ELSE settleHand(S, S.gameState[1],
                    Len(getActivePlayers(S.gameState[1], S.players)) >= 1,
                    determineWinners(S.gameState[1], S.players))

handleHandComplete(S) ==
    IF S.gameState = <<>> THEN S
    ELSE settleHand(S, S.gameState[1],
                    Len(getActivePlayers(S.gameState[1], S.players)) > 1,
                    IF Len(getActivePlayers(S.gameState[1], S.players)) > 1
                    THEN determineWinners(S.gameState[1], S.players)
                    ELSE foldWinners(getActivePlayers(S.gameState[1], S.players)[1].id,
                                     S.gameState[1].pot))

\* afterProcessed sending action-required before game-updated
afterProcessedUpdatingLast(S, result) ==
    IF result.handComplete THEN handleHandComplete(broadcastGameUpdate(S))
    ELSE broadcastGameUpdate(sendActionRequired(S))

\* The tail shared by handlePlayerAction and handleActionTimeout
afterProcessed(S, result) ==
    IF result.handComplete THEN handleHandComplete(broadcastGameUpdate(S))
    ELSE sendActionRequired(broadcastGameUpdate(S))

\* The room after processAction returned r: the engine mutates the room's
\* players and game state in place, whatever the result
Mutated(S, r) == [S EXCEPT !.players = r.players, !.gameState = <<r.gs>>]

\* handlePlayerAction once processAction has returned r
afterPlayerAction(S, ws, r) ==
    IF ~r.result.success THEN sendError(Mutated(S, r), ws, r.result.error)
    ELSE afterProcessed(Mutated(S, r), r.result)

handlePlayerAction(S, ws, playerId, action, amount) ==
    IF S.gameState = <<>> THEN sendError(S, ws, "Game not found")
    ELSE afterPlayerAction(clearActionTimer(S), ws,
             processAction(S.gameState[1], S.players, playerId, action, amount))

\* What processAction returns to handlePlayerAction
PlayerActionResult(S, playerId, action, amount) ==
    processAction(S.gameState[1], S.players, playerId, action, amount).result

\* The action the callback of the armed timer t synthesizes
autoActionOf(t) == IF "check" \in Range(t.validActions) THEN "check" ELSE "fold"

\* Whether the callback of the armed timer t gets as far as processAction
timeoutApplies(S, t) ==
    /\ S.gameState # <<>>
    /\ S.gameState[1].playerOrder[S.gameState[1].currentPlayerIndex + 1] = t.playerId

\* handleActionTimeout once processAction has returned r
afterTimeoutAction(S, r) ==
    IF ~r.result.success THEN Mutated(S, r)
    ELSE afterProcessed(Mutated(S, r), r.result)

\* handleActionTimeout folding the seat whatever it may do
handleActionTimeoutFolding(S, t) ==
    IF ~timeoutApplies(S, t) THEN S
    ELSE afterTimeoutAction(S,
             processAction(S.gameState[1], S.players, t.playerId, "fold", 0))

\* The callback of the armed timer t; firing consumes the timer
handleActionTimeout(S, t) ==
    IF ~timeoutApplies(S, t) THEN S
    ELSE afterTimeoutAction(S,
             processAction(S.gameState[1], S.players, t.playerId, autoActionOf(t), 0))

handleStartGame(S, ws, dealerIndex, seed) ==
    IF Len(S.players) < 2 THEN sendError(S, ws, "Need at least 2 players to start")
    ELSE IF S.gameState # <<>> THEN sendError(S, ws, "Game already in progress")
    ELSE LET st == startGame(S.players, dealerIndex, seed)
         IN  sendActionRequired(broadcastGameState(
                 [S EXCEPT !.players = st.players, !.gameState = <<st.gs>>]))

\* .sort((a, b) => b.chips - a.chips), a stable sort
RECURSIVE InsertByChips(_, _)
InsertByChips(sorted, p) ==
    IF sorted = <<>> THEN <<p>>
    ELSE IF Head(sorted).chips >= p.chips
    THEN <<Head(sorted)>> \o InsertByChips(Tail(sorted), p)
    ELSE <<p>> \o sorted

RECURSIVE SortByChips(_, _)
SortByChips(sorted, rest) ==
    IF rest = <<>> THEN sorted
    ELSE SortByChips(InsertByChips(sorted, Head(rest)), Tail(rest))

\* Array.from(room.players.values()).findIndex(p => p.isDealer), or 0
findDealerIndex(ps) ==
    IF \E i \in 1..Len(ps) : ps[i].isDealer
    THEN (CHOOSE i \in 1..Len(ps) : ps[i].isDealer /\ \A k \in 1..(i - 1) : ~ps[k].isDealer) - 1
    ELSE 0

EligibleCount(ps) == Cardinality({ i \in 1..Len(ps) : ps[i].chips > 0 })

\* The broadcasts shared by handleStartNextHand and autoStartNextHand once
\* startNextHand has returned the new state st
announceNextHand(S, st) ==
    sendActionRequired(broadcastGameState(
        [S EXCEPT !.players = st.players, !.gameState = st.gs]))

\* autoStartNextHand once startNextHand has returned st
afterAutoStart(S, st) ==
    IF st.gs = <<>> THEN [S EXCEPT !.players = st.players]
    ELSE announceNextHand(S, st)

\* The last branch of autoStartNextHand; a null result of startNextHand
\* leaves room.gameState as it was (null)
beginNextHand(S, previousDealerIndex, seed) ==
    afterAutoStart(S, startNextHand(S.players, previousDealerIndex, 0, seed))

\* handleStartNextHand once startNextHand has returned st
afterStartNextHand(S, ws, st) ==
    IF st.gs = <<>>
    THEN sendError([S EXCEPT !.players = st.players], ws, "Failed to start next hand")
    ELSE announceNextHand(S, st)

handleStartNextHand(S, ws, seed) ==
    IF S.gameState # <<>> THEN sendError(S, ws, "Hand already in progress")
    ELSE IF EligibleCount(S.players) < 2
    THEN sendError(S, ws, "Not enough players with chips to continue")
    ELSE afterStartNextHand(S, ws,
             startNextHand(S.players, findDealerIndex(S.players), 0, seed))

\* gameManager.removePlayerFromRoom: the room goes when its last seat goes
removePlayerFromRoom(S, roomId, playerId) ==
    IF roomId \notin S.rooms THEN S
    ELSE [S EXCEPT !.players = SelectSeq(@, LAMBDA p : p.id # playerId),
                   !.rooms = IF \A i \in 1..Len(S.players) : S.players[i].id = playerId
                             THEN @ \ {roomId} ELSE @]

\* The leaving connection still receives player-left, then loses its seat
\* and room; broadcastToRoom reaches the connections bound to the room named
handleLeaveRoom(S, ws, roomId, playerId) ==
    [(IF roomId = RoomId
      THEN broadcastToRoom(removePlayerFromRoom(S, roomId, playerId),
               [type |-> "player-left", to |-> 0, playerId |-> playerId])
      ELSE removePlayerFromRoom(S, roomId, playerId))
       EXCEPT !.clients = [i \in 1..Len(@) |->
                             IF @[i].ws = ws
                             THEN [@[i] EXCEPT !.playerId = <<>>, !.roomId = <<>>]
                             ELSE @[i]]]

\* handleJoinRoom seating the sender also while a hand is in progress
handleJoinRoomDuringHand(S, ws, roomId) ==
    IF roomId \notin S.rooms THEN sendError(S, ws, "Room not found")
    ELSE IF Len(S.players) >= MaxPlayers THEN sendError(S, ws, "Room is full")
    ELSE Emit(broadcastToRoom(
                  [S EXCEPT !.players = Append(@, NewPlayer(S.seatsCreated + 1,
                                                            StartingChips)),
                            !.seatsCreated = @ + 1,
                            !.clients = [i \in 1..Len(@) |->
                                           IF @[i].ws = ws
                                           THEN [@[i] EXCEPT
                                                   !.playerId = <<S.seatsCreated + 1>>,
                                                   !.roomId = <<RoomId>>]
                                           ELSE @[i]]],
                  [type |-> "player-joined", to |-> 0,
                   playerId |-> S.seatsCreated + 1]),
              <<[type |-> "room-joined", to |-> ws, playerId |-> S.seatsCreated + 1]>>)

\* createPlayer draws a fresh id; the new seat's connection is bound before
\* player-joined goes to the room
handleJoinRoom(S, ws, roomId) ==
    IF roomId \notin S.rooms THEN sendError(S, ws, "Room not found")
    ELSE IF Len(S.players) >= MaxPlayers THEN sendError(S, ws, "Room is full")
    ELSE IF S.gameState # <<>> THEN sendError(S, ws, "Game already in progress")
    ELSE Emit(broadcastToRoom(
                  [S EXCEPT !.players = Append(@, NewPlayer(S.seatsCreated + 1,
                                                            StartingChips)),
                            !.seatsCreated = @ + 1,
                            !.clients = [i \in 1..Len(@) |->
                                           IF @[i].ws = ws
                                           THEN [@[i] EXCEPT
                                                   !.playerId = <<S.seatsCreated + 1>>,
                                                   !.roomId = <<RoomId>>]
                                           ELSE @[i]]],
                  [type |-> "player-joined", to |-> 0,
                   playerId |-> S.seatsCreated + 1]),
              <<[type |-> "room-joined", to |-> ws, playerId |-> S.seatsCreated + 1]>>)

\* The callback of ws.on('close'): a bound connection takes its seat out of
\* its room, the other connections of the room are told, and the
\* connection is forgotten
handleClose(S, ws) ==
    LET c == S.clients[CHOOSE i \in 1..Len(S.clients) : S.clients[i].ws = ws]
        rest == SelectSeq(S.clients, LAMBDA x : x.ws # ws)
    IN  IF c.playerId # <<>> /\ c.roomId # <<>>
        THEN broadcastToRoom(
                 [removePlayerFromRoom(S, c.roomId[1], c.playerId[1])
                    EXCEPT !.clients = rest],
                 [type |-> "player-left", to |-> 0, playerId |-> c.playerId[1]])
        ELSE [S EXCEPT !.clients = rest]

autoStartNextHand(S, previousDealerIndex, seed) ==
    IF S.gameState # <<>> THEN S
    ELSE IF EligibleCount(S.players) = 1
    THEN LET winner == CHOOSE i \in 1..Len(S.players) : S.players[i].chips > 0
             marked == [i \in 1..Len(S.players) |->
                          [S.players[i] EXCEPT !.status =
                              IF i = winner THEN "active" ELSE "out"]]
             standings == SortByChips(<<>>, marked)
         IN  broadcastToRoom([S EXCEPT !.players = marked],
                 [type |-> "game-over", to |-> 0,
                  winner |-> toPlayerDTO(marked[winner]),
                  players |-> [i \in 1..Len(standings) |-> toPlayerDTO(standings[i])]])
    ELSE IF EligibleCount(S.players) = 0
    THEN broadcastToRoom(S, [type |-> "error", to |-> 0,
                             message |-> "Game over - no players remaining"])
    ELSE beginNextHand(S, previousDealerIndex, seed)

----------------------------------------------------------------------------
(* The state machine *)

Server ==
    [players |-> players, gameState |-> gameState, clients |-> clients,
     actionTimer |-> actionTimer, handTimers |-> handTimers, out |-> <<>>,
     rooms |-> rooms, seatsCreated |-> seatsCreated]

Install(S) ==
    /\ players' = S.players
    /\ gameState' = S.gameState
    /\ clients' = S.clients
    /\ actionTimer' = S.actionTimer
    /\ handTimers' = S.handTimers
    /\ out' = S.out
    /\ rooms' = S.rooms
    /\ seatsCreated' = S.seatsCreated
    /\ UNCHANGED potResult

Conns == { clients[i].ws : i \in 1..Len(clients) }

\* The connection an intent naming playerId arrives on: the one bound to
\* that seat, or the first connection when no connection is bound to it
SenderOf(playerId) ==
    IF \E i \in 1..Len(clients) : clients[i].playerId = <<playerId>>
    THEN clients[CHOOSE i \in 1..Len(clients) : clients[i].playerId = <<playerId>>].ws
    ELSE clients[1].ws

NoCall == [op |-> "none", success |-> TRUE]

\* A room between hands: the seats joined in order, each on its own
\* connection; earlier hands may have moved the stacks away from StartingChips
InitWith(stackSet) ==
    \E stacks \in stackSet :
        /\ players = [i \in 1..Len(stacks) |-> NewPlayer(i, stacks[i])]
        /\ clients = [i \in 1..Len(stacks) |->
                        [ws |-> i, playerId |-> <<i>>, roomId |-> <<RoomId>>]]
        /\ gameState = <<>>
        /\ actionTimer = <<>>
        /\ handTimers = <<>>
        /\ out = <<>>
        /\ lastCall = NoCall
        /\ startTotal = 0
        /\ betsThisHand = 0
        /\ handsStarted = 0
        /\ potResult = <<>>
        /\ rooms = {RoomId}
        /\ seatsCreated = Len(stacks)

Init == InitWith(InitStacks)

StartsHand(S) == gameState = <<>> /\ S.gameState # <<>>

\* The history variables after a handler that is not an accepted bet or raise
History(S) ==
    /\ startTotal' = IF StartsHand(S) THEN TotalChips(players) ELSE startTotal
    /\ betsThisHand' = IF StartsHand(S) THEN 0 ELSE betsThisHand
    /\ handsStarted' = IF StartsHand(S) THEN handsStarted + 1 ELSE handsStarted

\* lastCall of a handler that reached processAction with result
Processed(op, playerId, action, result) ==
    IF result.success
    THEN [op |-> op, success |-> TRUE, playerId |-> playerId, action |-> action,
          result |-> result]
    ELSE [op |-> op, success |-> FALSE]

\* The step of a handler op that may start a hand and leaves the room S
Starts(op, S) ==
    /\ StartsHand(S) => handsStarted < MaxHands
    /\ Install(S)
    /\ lastCall' = [op |-> op, success |-> StartsHand(S)]
    /\ History(S)

StartGame(ws, dealerIndex, seed) ==
    Starts("start-game", handleStartGame(Server, ws, dealerIndex, seed))

StartNextHand(ws, seed) ==
    Starts("start-next-hand", handleStartNextHand(Server, ws, seed))

AutoStartNextHand(seed) ==
    /\ handTimers # <<>>
    /\ Starts("auto-start",
              autoStartNextHand([Server EXCEPT !.handTimers = Tail(@)],
                                Head(handTimers), seed))

\* A leave-room intent naming roomId and playerId arrives on connection ws
LeaveRoom(ws, roomId, playerId) ==
    Starts("leave-room", handleLeaveRoom(Server, ws, roomId, playerId))

\* A join-room intent naming roomId; seats are created up to MaxSeatsCreated
JoinRoom(ws, roomId) ==
    /\ handleJoinRoom(Server, ws, roomId).seatsCreated <= MaxSeatsCreated
    /\ Starts("join-room", handleJoinRoom(Server, ws, roomId))

\* Connection ws closes
Close(ws) == Starts("close", handleClose(Server, ws))

\* A start-game intent naming roomId
StartGameIn(ws, roomId, dealerIndex, seed) ==
    IF roomId \in rooms THEN StartGame(ws, dealerIndex, seed)
    ELSE Starts("start-game", sendError(Server, ws, "Room not found"))

\* The step of a player-action intent that leaves the room S and got result
\* from processAction; accepted bets and raises are counted up to MaxBets
Acts(S, playerId, action, result) ==
    /\ (result.success /\ action \in {"bet", "raise"}) => betsThisHand < MaxBets
    /\ Install(S)
    /\ lastCall' = Processed("player-action", playerId, action, result)
    /\ betsThisHand' = IF result.success /\ action \in {"bet", "raise"}
                       THEN betsThisHand + 1 ELSE betsThisHand
    /\ UNCHANGED <<startTotal, handsStarted>>

PlayerAction(playerId, action, amount) ==
    Acts(handlePlayerAction(Server, SenderOf(playerId), playerId, action, amount),
         playerId, action,
         IF gameState = <<>> THEN Fail(<<>>, <<>>, "Game not found").result
         ELSE PlayerActionResult(Server, playerId, action, amount))

\* The step of the callback of the armed timer t that leaves the room S
TimesOut(S, t, result) ==
    /\ Install(S)
    /\ lastCall' = Processed("action-timeout", t.playerId, autoActionOf(t), result)
    /\ History(S)

\* The armed turn timer fires
ActionTimeout ==
    /\ actionTimer # <<>>
    /\ TimesOut(handleActionTimeout([Server EXCEPT !.actionTimer = <<>>], actionTimer[1]),
                actionTimer[1],
                IF timeoutApplies(Server, actionTimer[1])
                THEN PlayerActionResult(Server, actionTimer[1].playerId,
                                        autoActionOf(actionTimer[1]), 0)
                ELSE Fail(<<>>, <<>>, "").result)

\* One hand: start-game intents are explored until the first hand completes
\* (hand completion arms the inter-hand timer)
FirstHand == handTimers = <<>>

Next ==
    \/ \E ws \in Conns, dealerIndex \in 0..(Len(players) - 1), seed \in Seeds :
          FirstHand /\ StartGame(ws, dealerIndex, seed)
    \/ \E playerId \in Range(PlayerIds(players)) \cup UnknownIds, action \in ActionTypes :
          \E amount \in (IF action \in {"bet", "raise"} THEN Amounts ELSE {0}) :
             PlayerAction(playerId, action, amount)
    \/ ActionTimeout

Spec == Init /\ [][Next]_vars

\* A game: hands follow one another, started by the inter-hand timer or by a
\* start-game or start-next-hand intent. Earlier hands have left the seats
\* short of chips, so that hands eliminate seats; start intents come from the
\* first connection and action intents from the seat to act; seats leave
\* during the inter-hand delay, as long as the room keeps a seat
GameStacks == { <<30, 30>>, <<10, 20, 30>> }

GameSeeds == {8}

GameActions == {"fold", "check", "call", "all-in"}

CurrentSeat ==
    IF gameState = <<>> THEN {}
    ELSE {gameState[1].playerOrder[gameState[1].currentPlayerIndex + 1]}

GameInit == InitWith(GameStacks)

GameNext ==
    \/ \E dealerIndex \in 0..(Len(players) - 1), seed \in GameSeeds :
          StartGame(clients[1].ws, dealerIndex, seed)
    \/ \E seed \in GameSeeds : StartNextHand(clients[1].ws, seed)
    \/ \E seed \in GameSeeds : AutoStartNextHand(seed)
    \/ \E playerId \in CurrentSeat, action \in GameActions :
          PlayerAction(playerId, action, 0)
    \/ ActionTimeout
    \/ \E playerId \in Range(PlayerIds(players)) :
          gameState = <<>> /\ handTimers # <<>> /\ Len(players) > 1
          /\ LeaveRoom(SenderOf(playerId), RoomId, playerId)

Game == GameInit /\ [][GameNext]_vars

\* One hand of a game and its turn timer: action intents name any seat of
\* the room or none, and a setTimeout that stays armed fires
TurnsNext ==
    \/ \E seed \in GameSeeds : FirstHand /\ StartGame(clients[1].ws, 0, seed)
    \/ \E playerId \in Range(PlayerIds(players)) \cup UnknownIds, action \in GameActions :
          PlayerAction(playerId, action, 0)
    \/ ActionTimeout

\* What a firing turn timer can leave in lastCall
TimeoutCalls ==
    {[op |-> "action-timeout", success |-> FALSE]}
       \cup { Processed("action-timeout", playerId, action,
                        Ok(roundComplete, handComplete, runout)) :
                 playerId \in 1..MaxSeatCount, action \in {"check", "fold"},
                 roundComplete \in BOOLEAN, handComplete \in BOOLEAN, runout \in BOOLEAN }

\* The step of the armed turn timer, told by what it leaves in lastCall: it
\* is possible exactly when a timer is armed, and the steps of TurnsNext
\* that are one are the ActionTimeout steps (TimerStepIsActionTimeout,
\* TimerStepsAreFinite)
TimerStep == actionTimer # <<>> /\ lastCall' \in TimeoutCalls

\* A setTimeout that stays armed fires
Turns == GameInit /\ [][TurnsNext]_vars /\ WF_lastCall(TimerStep)

----------------------------------------------------------------------------
(* The lobby: seats join and leave a room, connections close *)

LobbyRoomIds == {RoomId, "nowhere"}

\* The room after create-room on connection 1, a second connection open
\* (handleCreateRoom seats the creator and binds its connection)
LobbyInit ==
    /\ players = <<NewPlayer(1, StartingChips)>>
    /\ clients = <<[ws |-> 1, playerId |-> <<1>>, roomId |-> <<RoomId>>],
                   [ws |-> 2, playerId |-> <<>>, roomId |-> <<>>]>>
    /\ gameState = <<>>
    /\ actionTimer = <<>>
    /\ handTimers = <<>>
    /\ out = <<>>
    /\ lastCall = NoCall
    /\ startTotal = 0
    /\ betsThisHand = 0
    /\ handsStarted = 0
    /\ potResult = <<>>
    /\ rooms = {RoomId}
    /\ seatsCreated = 1

\* Intents arrive on the open connections; a leave-room names the seat of
\* its connection or a seat that is not seated, a player-action names a seat
\* that is not seated
LobbyNext ==
    \/ \E ws \in Conns, roomId \in LobbyRoomIds : JoinRoom(ws, roomId)
    \/ \E ws \in Conns, roomId \in LobbyRoomIds :
          \E playerId \in UnknownIds \cup { p \in Range(PlayerIds(players)) :
                                              <<ws, <<p>>>> \in
                                                { <<clients[i].ws, clients[i].playerId>> :
                                                    i \in 1..Len(clients) } } :
             LeaveRoom(ws, roomId, playerId)
    \/ \E ws \in Conns : Close(ws)
    \/ \E ws \in Conns, roomId \in LobbyRoomIds, seed \in GameSeeds :
          StartGameIn(ws, roomId, 0, seed)
    \/ \E playerId \in UnknownIds :
          RoomId \in rooms /\ clients # <<>> /\ PlayerAction(playerId, "fold", 0)

Lobby == LobbyInit /\ [][LobbyNext]_vars

\* A player-action intent naming playerId arrives on connection ws; lastCall
\* keeps the connection
PlayerActionFrom(ws, playerId, action) ==
    /\ Install(handlePlayerAction(Server, ws, playerId, action, 0))
    /\ lastCall' = [op |-> "player-action", ws |-> ws, playerId |-> playerId,
                    success |-> /\ gameState # <<>>
                                /\ PlayerActionResult(Server, playerId, action, 0).success]
    /\ UNCHANGED <<startTotal, betsThisHand, handsStarted>>

\* A leave-room intent for the room naming playerId arrives on connection ws
LeaveRoomFrom(ws, playerId) ==
    /\ Install(handleLeaveRoom(Server, ws, RoomId, playerId))
    /\ lastCall' = [op |-> "leave-room", ws |-> ws, playerId |-> playerId,
                    success |-> HasPlayer(players, playerId)]
    /\ UNCHANGED <<startTotal, betsThisHand, handsStarted>>

\* One hand in which every connection may send an intent naming any seat of
\* the room: the payload of an intent is whatever its sender put there.
\* Seats leave between hands
IntentsNext ==
    \/ \E seed \in GameSeeds : FirstHand /\ StartGameIn(clients[1].ws, RoomId, 0, seed)
    \/ \E ws \in Conns, playerId \in Range(PlayerIds(players)), action \in GameActions :
          PlayerActionFrom(ws, playerId, action)
    \/ \E ws \in Conns, playerId \in Range(PlayerIds(players)) :
          gameState = <<>> /\ LeaveRoomFrom(ws, playerId)
    \/ ActionTimeout

Intents == GameInit /\ [][IntentsNext]_vars

----------------------------------------------------------------------------
(* The pot calculator on its own *)

\* Total contributions of a seat at a showdown
PotAmounts == {0, 200, 500}

PotSeats == 1..MaxSeatCount

\* Insertion orders of playerContributions
SeatOrders == { o \in [PotSeats -> PotSeats] : \A i, j \in PotSeats : o[i] = o[j] => i = j }

\* The room when handleHandComplete is about to call determineWinners: the
\* hand st was dealt, the seats contributed amounts (entered into the map in
\* order), the seats of folded have folded and the board is complete
ShowdownPlayers(st, amounts, folded) ==
    [i \in 1..Len(st.players) |->
        [st.players[i] EXCEPT
            !.chips = StartingChips - amounts[i],
            !.bet = 0,
            !.status = IF i \in folded THEN "folded"
                       ELSE IF amounts[i] = StartingChips THEN "all-in"
                       ELSE "active"]]

ShowdownState(st, order, amounts) ==
    [st.gs EXCEPT
        !.phase = "showdown",
        !.communityCards = Take(st.gs.deck, 5),
        !.deck = Drop(st.gs.deck, 5),
        !.currentBet = 0,
        !.roundBets = [id \in DOMAIN @ |-> 0],
        !.pot = SumSeq([i \in 1..Len(order) |-> amounts[i]]),
        !.playerContributions = [k \in 1..Len(order) |->
                                   [k |-> order[k], v |-> amounts[order[k]]]]]

PotCase(st, order, amounts, folded) ==
    /\ players = ShowdownPlayers(st, amounts, folded)
    /\ gameState = <<ShowdownState(st, order, amounts)>>
    /\ clients = [i \in 1..Len(st.players) |->
                    [ws |-> i, playerId |-> <<i>>, roomId |-> <<RoomId>>]]
    /\ actionTimer = <<>>
    /\ handTimers = <<>>
    /\ out = <<>>
    /\ lastCall = NoCall
    /\ startTotal = Len(st.players) * StartingChips
    /\ betsThisHand = 0
    /\ handsStarted = 1
    /\ potResult = <<>>
    /\ rooms = {RoomId}
    /\ seatsCreated = MaxSeatCount

PotInit ==
    \E order \in SeatOrders, amounts \in [PotSeats -> PotAmounts],
       folded \in SUBSET PotSeats, seed \in Seeds :
        PotCase(startGame([i \in PotSeats |-> NewPlayer(i, StartingChips)], 0, seed),
                order, amounts, folded)

room == <<players, gameState, clients, actionTimer, handTimers, out, lastCall,
          startTotal, betsThisHand, handsStarted, rooms, seatsCreated>>

CalculateSidePots ==
    /\ potResult' = <<[op |-> "calculateSidePots",
                       sidePots |-> calculateSidePots(gameState[1].playerContributions,
                                                      players)]>>
    /\ UNCHANGED room

\* determineWinners is called when more than one seat is left in the hand
DetermineWinners ==
    /\ Len(getActivePlayers(gameState[1], players)) > 1
    /\ potResult' = <<[op |-> "determineWinners",
                       winners |-> determineWinners(gameState[1], players)]>>
    /\ UNCHANGED room

PotNext == CalculateSidePots \/ DetermineWinners

PotCalculator == PotInit /\ [][PotNext]_vars

----------------------------------------------------------------------------
(* The hand evaluator on its own *)

\* The card of rank value v (2..14, the ace is 14) and suit s (0..3)
CardOf(v, s) == s * NumRanks + (v - 2)

\* Inputs of evaluateHand: wheels and six-high straights, plain and
\* suited, the best hands of the categories below them, a wheel with two
\* kings and a wheel with a six
EvalHands ==
    { <<CardOf(14, 0), CardOf(2, 1), CardOf(3, 2), CardOf(4, 3), CardOf(5, 0)>>,
      <<CardOf(14, 0), CardOf(2, 0), CardOf(3, 0), CardOf(4, 0), CardOf(5, 0)>>,
      <<CardOf(2, 1), CardOf(3, 2), CardOf(4, 3), CardOf(5, 0), CardOf(6, 1)>>,
      <<CardOf(2, 1), CardOf(3, 1), CardOf(4, 1), CardOf(5, 1), CardOf(6, 1)>>,
      <<CardOf(14, 0), CardOf(14, 1), CardOf(14, 2), CardOf(13, 0), CardOf(12, 1)>>,
      <<CardOf(14, 0), CardOf(14, 1), CardOf(14, 2), CardOf(14, 3), CardOf(13, 0)>>,
      <<CardOf(14, 0), CardOf(13, 0), CardOf(12, 0), CardOf(11, 0), CardOf(9, 0)>>,
      <<CardOf(14, 0), CardOf(2, 1), CardOf(3, 2), CardOf(4, 3), CardOf(5, 0),
        CardOf(13, 1), CardOf(13, 2)>>,
      <<CardOf(14, 0), CardOf(2, 1), CardOf(3, 2), CardOf(4, 3), CardOf(5, 0),
        CardOf(6, 1)>> }

\* No room exists; cards are about to be evaluated
EvalInit ==
    /\ players = <<>>
    /\ gameState = <<>>
    /\ clients = <<>>
    /\ actionTimer = <<>>
    /\ handTimers = <<>>
    /\ out = <<>>
    /\ lastCall = NoCall
    /\ startTotal = 0
    /\ betsThisHand = 0
    /\ handsStarted = 0
    /\ rooms = {}
    /\ seatsCreated = 0
    /\ \E cards \in EvalHands :
          potResult = <<[op |-> "evaluateHand", cards |-> cards, first |-> <<>>,
                         result |-> <<>>]>>

\* evaluateHand(cards); first keeps the result for the order the cards
\* came in
EvaluateHand ==
    /\ potResult[1].result = <<>>
    /\ potResult' = <<[potResult[1] EXCEPT
                         !.result = <<evaluateHand(potResult[1].cards, 0)>>,
                         !.first = IF @ = <<>>
                                   THEN <<evaluateHand(potResult[1].cards, 0)>> ELSE @]>>
    /\ UNCHANGED room

\* The caller passes the same cards in another order
Reorder(i, j) ==
    /\ potResult[1].first # <<>>
    /\ potResult' = <<[potResult[1] EXCEPT
                         !.cards = [@ EXCEPT ![i] = potResult[1].cards[j],
                                             ![j] = potResult[1].cards[i]],
                         !.result = <<>>]>>
    /\ UNCHANGED room

EvalNext ==
    \/ EvaluateHand
    \/ \E i, j \in 1..Len(potResult[1].cards) : i < j /\ Reorder(i, j)

Evaluator == EvalInit /\ [][EvalNext]_vars

----------------------------------------------------------------------------
(* Properties *)

InHand == gameState # <<>>

\* The step was a handler that had processAction accept an action
Accepted(call) == call.op \in {"player-action", "action-timeout"} /\ call.success

\* C1: in every state of a hand, after the blinds and after every accepted
\* action, the pot equals the sum of the seats' contributions.
C1_PotEqualsContributions ==
    InHand => gameState[1].pot = SumSeq(MapValues(gameState[1].playerContributions))

\* A hand in which a seat that had posted a blind has since raised
C1_Witness ==
    /\ InHand
    /\ Accepted(lastCall) /\ lastCall.action = "raise"
    /\ GetPlayer(players, lastCall.playerId).isSmallBlind
    /\ gameState[1].pot = SumSeq(MapValues(gameState[1].playerContributions))

\* C2: from hand start until distribution, the seats' chips plus the pot
\* equal the chips the seats held just before the blinds, whatever accepted
\* actions, rejected actions and timer expiries have happened.
C2_ChipsPlusPotConstant ==
    InHand => TotalChips(players) + gameState[1].pot = startTotal

\* A hand with a short blind in which the turn timer has just acted
C2_Witness ==
    /\ InHand
    /\ lastCall.op = "action-timeout" /\ lastCall.success
    /\ \E i \in 1..Len(players) :
          /\ players[i].isBigBlind
          /\ MapGet(gameState[1].playerContributions, players[i].id) < BigBlind
    /\ TotalChips(players) + gameState[1].pot = startTotal

\* C3: at hand completion, by fold-out or by showdown, the amounts credited
\* to the seats sum to the pot, so the seats together hold what they held
\* before the hand started.
C3_DistributionSumsToPot ==
    \A i \in 1..Len(out) :
        out[i].type = "hand-complete" =>
            /\ SumSeq([k \in 1..Len(out[i].winners) |-> out[i].winners[k].amount])
                  = out[i].pot
            /\ TotalChips(players) = startTotal

\* The seat bound to the connection ws: <<>> or <<playerId>>
BoundSeat(ws) == clients[CHOOSE i \in 1..Len(clients) : clients[i].ws = ws].playerId

\* The cards a player DTO carries
DTOCards(d) == IF "hand" \in DOMAIN d THEN Range(d.hand) ELSE {}

\* The cards message m carries, the community cards aside
MessageCards(m) ==
    CASE m.type \in {"game-started", "game-updated"} ->
            Range(m.gameState.myCards)
            \cup UNION { DTOCards(m.gameState.players[k]) :
                           k \in 1..Len(m.gameState.players) }
      [] m.type = "hand-complete" ->
            UNION { DTOCards(m.players[k]) : k \in 1..Len(m.players) }
            \cup UNION { Range(m.winners[k].handResult.cards) : k \in 1..Len(m.winners) }
      [] m.type = "game-over" ->
            DTOCards(m.winner) \cup UNION { DTOCards(m.players[k]) : k \in 1..Len(m.players) }
      [] OTHER -> {}

\* C4: a message to the connection bound to seat X carries hole cards of a
\* seat Y # X only if it is a hand-complete with isShowdown and Y is active
\* or all-in; game-started and game-updated carry the recipient's own cards
\* in myCards and only handSize for every seat.
C4_HoleCardsPrivate ==
    \A i \in 1..Len(out) :
        LET m == out[i]
            x == BoundSeat(m.to)
        IN  /\ \A k \in 1..Len(players) :
                  ( /\ <<players[k].id>> # x
                    /\ Range(players[k].hand) \cap MessageCards(m) # {} )
                  => /\ m.type = "hand-complete"
                     /\ m.isShowdown
                     /\ players[k].status \in {"active", "all-in"}
            /\ m.type \in {"game-started", "game-updated"} =>
                  /\ m.gameState.myCards =
                        (IF x # <<>> /\ HasPlayer(players, x[1])
                         THEN GetPlayer(players, x[1]).hand ELSE <<>>)
                  /\ \A k \in 1..Len(m.gameState.players) :
                        LET d == m.gameState.players[k]
                        IN  /\ "hand" \notin DOMAIN d
                            /\ d.handSize = Len(GetPlayer(players, d.id).hand)

\* A showdown reported to a seat while another seat shows its cards and a
\* third, folded, does not
C4_Witness ==
    \E i \in 1..Len(out) :
        /\ out[i].type = "hand-complete" /\ out[i].isShowdown
        /\ \E k, l \in 1..Len(out[i].players) :
              /\ <<out[i].players[k].id>> # BoundSeat(out[i].to)
              /\ out[i].players[k].hand # <<>>
              /\ out[i].players[l].status = "folded"
              /\ out[i].players[l].hand = <<>>
              /\ out[i].players[l].handSize = 2

\* C5: a rejected player-action leaves the room as it was: seats, chips,
\* pot, roundBets, contributions, the acted set, statuses,
\* currentPlayerIndex, phase and the armed turn timer.
C5_RejectedActionChangesNothing ==
    [][ (lastCall'.op = "player-action" /\ ~lastCall'.success)
          => UNCHANGED <<players, gameState, actionTimer, handTimers, clients>> ]_vars

\* The legal actions of the seat with playerId in game state gs, as the
\* rules state them
LegalActions(gs, ps, playerId) ==
    LET seat == GetPlayer(ps, playerId)
        toCall == gs.currentBet - gs.roundBets[playerId]
    IN  IF seat.status # "active" THEN {}
        ELSE {"fold"}
             \cup (IF toCall = 0 THEN {"check"} ELSE {})
             \cup (IF toCall > 0 /\ seat.chips > 0 THEN {"call"} ELSE {})
             \cup (IF gs.currentBet = 0 /\ seat.chips > 0 THEN {"bet"} ELSE {})
             \cup (IF gs.currentBet > 0 /\ seat.chips > toCall THEN {"raise"} ELSE {})
             \cup (IF seat.chips > 0 THEN {"all-in"} ELSE {})

\* C6: processAction accepts an action only for the seat at
\* currentPlayerIndex and only if the action is legal in the state before
\* it; a folded, all-in or out seat never has an action applied.
C6_OnlyCurrentSeatLegalAction ==
    [][ Accepted(lastCall') =>
          /\ InHand
          /\ HasPlayer(players, lastCall'.playerId)
          /\ gameState[1].playerOrder[gameState[1].currentPlayerIndex + 1]
                = lastCall'.playerId
          /\ lastCall'.action \in LegalActions(gameState[1], players, lastCall'.playerId)
          /\ StatusOf(players, lastCall'.playerId) \notin {"folded", "all-in", "out"} ]_vars

\* An action accepted while another seat of the hand was folded and a third
\* all-in
C6_Witness ==
    /\ lastCall.op = "player-action" /\ lastCall.success
    /\ \E i, k \in 1..Len(players) :
          /\ players[i].id # lastCall.playerId /\ players[i].status = "folded"
          /\ players[k].id # lastCall.playerId /\ players[k].status = "all-in"

\* C7: every action-required names the seat at currentPlayerIndex and lists
\* exactly the legal actions of that seat in the state at emission (none for
\* a seat that is not active).
C7_ActionRequiredListsLegalActions ==
    \A i \in 1..Len(out) :
        out[i].type = "action-required" =>
            /\ InHand
            /\ out[i].playerId
                  = gameState[1].playerOrder[gameState[1].currentPlayerIndex + 1]
            /\ Range(out[i].validActions)
                  = LegalActions(gameState[1], players, out[i].playerId)
            /\ Len(out[i].validActions) = Cardinality(Range(out[i].validActions))

\* An action-required for a seat whose chips do not cover the call
C7_Witness ==
    \E i \in 1..Len(out) :
        /\ out[i].type = "action-required"
        /\ InHand
        /\ LET seat == GetPlayer(players, out[i].playerId)
               toCall == gameState[1].currentBet - gameState[1].roundBets[seat.id]
           IN  seat.chips > 0 /\ seat.chips <= toCall
        /\ Range(out[i].validActions) = {"fold", "call", "all-in"}

\* The game-updated, action-required and hand-complete events among msgs
Events(msgs) ==
    SelectSeq(msgs, LAMBDA m : m.type \in {"game-updated", "action-required",
                                           "hand-complete"})

\* The step left the room, and sent the events, as the player-action of
\* seat with action auto leaves it
SteppedAs(S, auto) ==
    /\ lastCall'.success => lastCall'.action = auto
    /\ players' = S.players
    /\ gameState' = S.gameState
    /\ actionTimer' = S.actionTimer
    /\ handTimers' = S.handTimers
    /\ Events(out') = Events(S.out)

SteppedAsTheSeat(seat, auto) ==
    SteppedAs(handlePlayerAction(Server, SenderOf(seat), seat, auto, 0), auto)

\* C8: when the turn timer expires while its seat is still the current
\* seat, the controller applies check if check is legal for the seat and
\* fold otherwise, with the state transition and the game-updated,
\* action-required and hand-complete events the seat's own player-action
\* would have produced.
C8_TimeoutActsAsTheSeat ==
    [][ ( /\ lastCall'.op = "action-timeout"
          /\ actionTimer # <<>>
          /\ InHand
          /\ gameState[1].playerOrder[gameState[1].currentPlayerIndex + 1]
                = actionTimer[1].playerId )
        => SteppedAsTheSeat(actionTimer[1].playerId,
               IF "check" \in LegalActions(gameState[1], players, actionTimer[1].playerId)
               THEN "check" ELSE "fold") ]_vars

\* A timer expiry that checked for its seat and took the hand to a showdown
C8_Witness ==
    /\ lastCall.op = "action-timeout" /\ lastCall.success
    /\ lastCall.action = "check"
    /\ \E i \in 1..Len(out) : out[i].type = "hand-complete" /\ out[i].isShowdown

\* The seats that can still act, and those still in the hand
SeatsAbleToAct == { i \in 1..Len(players) : players[i].status = "active" }

SeatsInHand == { i \in 1..Len(players) : players[i].status \in {"active", "all-in"} }

\* C9: once an accepted action has closed the betting round with fewer than
\* two seats able to act, and two or more seats still in the hand, no
\* player-action is requested any more: no action-required is sent and no
\* turn timer is armed.
C9_NoActionRequestedInRunOut ==
    ( /\ Accepted(lastCall)
      /\ lastCall.result.roundComplete
      /\ Cardinality(SeatsAbleToAct) < 2
      /\ Cardinality(SeatsInHand) >= 2 )
    => /\ \A i \in 1..Len(out) : out[i].type # "action-required"
       /\ actionTimer = <<>>

\* C10: when an accepted action leaves exactly one seat active or all-in,
\* the hand completes in the same step: that seat is credited the whole
\* pot, and hand-complete goes out with isShowdown false and no hole cards.
C10_FoldOutAwardsWholePot ==
    [][ ( /\ Accepted(lastCall')
          /\ Cardinality({ i \in 1..Len(players') :
                             players'[i].status \in {"active", "all-in"} }) = 1 )
        => LET w == CHOOSE i \in 1..Len(players') :
                        players'[i].status \in {"active", "all-in"}
               sent == SelectSeq(out', LAMBDA m : m.type = "hand-complete")
           IN  /\ InHand /\ gameState' = <<>>
               /\ \A i \in 1..Len(players) :
                     players'[i].chips =
                        players[i].chips + (IF i = w THEN gameState[1].pot ELSE 0)
               /\ Len(sent) = Len(clients)
               /\ \A k \in 1..Len(sent) :
                     /\ sent[k].isShowdown = FALSE
                     /\ sent[k].pot = gameState[1].pot
                     /\ Len(sent[k].winners) = 1
                     /\ sent[k].winners[1].playerId = players[w].id
                     /\ sent[k].winners[1].amount = gameState[1].pot
                     /\ MessageCards(sent[k]) = {} ]_vars

\* Heads-up with blinds 10/20: the first to act folded before the flop, the
\* winner holds 1010 and the folder 990
C10_Witness ==
    /\ Len(players) = 2
    /\ lastCall.op = "player-action" /\ lastCall.success /\ lastCall.action = "fold"
    /\ ~InHand
    /\ GetPlayer(players, lastCall.playerId).chips = 990
    /\ \E i \in 1..Len(players) : players[i].chips = 1010
    /\ \E i \in 1..Len(out) :
          /\ out[i].type = "hand-complete" /\ ~out[i].isShowdown
          /\ out[i].communityCards = <<>>

\* The contributions and the seats the pot calculator was called on
Contributions == gameState[1].playerContributions

ContributionOf(id) == MapGet(Contributions, id)

Folded(id) == ~HasPlayer(players, id) \/ StatusOf(players, id) = "folded"

SidePotsReturned == potResult # <<>> /\ potResult[1].op = "calculateSidePots"

\* C11: for every contribution map and fold assignment, the amounts of the
\* side pots calculateSidePots returns, merged pots included, sum to the sum
\* of all contributions.
C11_SidePotsSumToContributions ==
    SidePotsReturned =>
        SumSeq([i \in 1..Len(potResult[1].sidePots) |-> potResult[1].sidePots[i].amount])
          = SumSeq(MapValues(Contributions))

\* Two contribution levels merged into one pot, with chips of a folded seat
C11_Witness ==
    /\ SidePotsReturned
    /\ Len(potResult[1].sidePots) = 1
    /\ Cardinality({ Contributions[i].v : i \in 1..Len(Contributions) } \ {0}) = 2
    /\ \E i \in 1..Len(Contributions) :
          Contributions[i].v > 0 /\ Folded(Contributions[i].k)
    /\ Len(potResult[1].sidePots[1].eligiblePlayerIds) > 0

WinnersReturned == potResult # <<>> /\ potResult[1].op = "determineWinners"

\* The most a seat with the contribution of id can win: what every seat
\* contributed up to that contribution
Winnable(id) ==
    SumSeq([i \in 1..Len(Contributions) |->
              Min(Contributions[i].v, ContributionOf(id))])

\* The amounts of the first k side pots
PotsUpTo(sidePots, k) == SumSeq([i \in 1..k |-> sidePots[i].amount])

\* The seats a, b, c contributed as A, B, C of the example: A = 200,
\* B = 500, C = 500, nobody folded
ExampleContributions(a, b, c) ==
    /\ {a, b, c} = PotSeats
    /\ ContributionOf(a) = 200 /\ ContributionOf(b) = 500 /\ ContributionOf(c) = 500
    /\ \A id \in PotSeats : ~Folded(id)

\* C12: each side pot is awarded only to non-folded seats that contributed
\* at least that pot's level, so no seat receives more than the sum over all
\* seats s of min(contribution[s], its own contribution); contributions
\* A = 200, B = 500, C = 500 with nobody folded give the pots 600 for
\* {A, B, C} and 600 for {B, C}.
C12_PotsAwardedByLevel ==
    /\ SidePotsReturned =>
          /\ \A k \in 1..Len(potResult[1].sidePots) :
                \A id \in Range(potResult[1].sidePots[k].eligiblePlayerIds) :
                   /\ ~Folded(id)
                   /\ PotsUpTo(potResult[1].sidePots, k) <= Winnable(id)
          /\ \A a, b, c \in PotSeats :
                ExampleContributions(a, b, c) =>
                   /\ Len(potResult[1].sidePots) = 2
                   /\ potResult[1].sidePots[1].amount = 600
                   /\ Range(potResult[1].sidePots[1].eligiblePlayerIds) = {a, b, c}
                   /\ potResult[1].sidePots[2].amount = 600
                   /\ Range(potResult[1].sidePots[2].eligiblePlayerIds) = {b, c}
    /\ WinnersReturned =>
          \A i \in 1..Len(potResult[1].winners) :
             /\ ~Folded(potResult[1].winners[i].playerId)
             /\ potResult[1].winners[i].amount <= Winnable(potResult[1].winners[i].playerId)

\* The example at a showdown the short seat wins: A takes the 600 of the
\* first pot and no more
C12_Witness ==
    /\ WinnersReturned
    /\ \E a, b, c \in PotSeats :
          /\ ExampleContributions(a, b, c)
          /\ \E i \in 1..Len(potResult[1].winners) :
                /\ potResult[1].winners[i].playerId = a
                /\ potResult[1].winners[i].amount = 600

\* The accepted step of the seat with id raised the current bet with the
\* seat's last chips, by less than a minimum raise, and the betting round
\* goes on
UnderSizedAllIn(id) ==
    /\ gameState # <<>> /\ gameState' # <<>>
    /\ Accepted(lastCall') /\ lastCall'.playerId = id
    /\ lastCall'.action \in {"all-in", "raise"}
    /\ GetPlayer(players', id).chips = 0
    /\ gameState'[1].phase = gameState[1].phase
    /\ gameState'[1].roundBets[id] > gameState[1].currentBet
    /\ gameState'[1].roundBets[id] - gameState[1].currentBet < gameState[1].minRaise
    /\ gameState'[1].roundBets[id] - gameState[1].currentBet < gameState[1].bigBlind

\* The seats that had acted and matched the current bet
ActedAndMatched ==
    { id \in gameState[1].playersActed :
         /\ StatusOf(players, id) = "active"
         /\ gameState[1].roundBets[id] = gameState[1].currentBet }

\* C13: an all-in, or a raise with the seat's last chips, that lifts
\* currentBet by less than a minimum raise sets currentBet to the new bet,
\* leaves minRaise as it was and keeps in the acted set every seat that had
\* acted and matched the previous currentBet.
C13_UnderSizedAllInDoesNotReopen ==
    [][ \A id \in 1..MaxSeatCount :
           UnderSizedAllIn(id)
           => /\ gameState'[1].currentBet = gameState'[1].roundBets[id]
              /\ gameState'[1].minRaise = gameState[1].minRaise
              /\ ActedAndMatched \subseteq gameState'[1].playersActed ]_vars

\* The step was an accepted bet or raise of the seat with id, and the hand
\* goes on
BetOrRaiseBy(id) ==
    /\ gameState # <<>> /\ gameState' # <<>>
    /\ Accepted(lastCall') /\ lastCall'.playerId = id
    /\ lastCall'.action \in {"bet", "raise"}

\* The round bet the seat with id reached in the step
TargetReached(id) ==
    gameState[1].roundBets[id]
      + MapGet(gameState'[1].playerContributions, id)
      - MapGet(gameState[1].playerContributions, id)

\* The step opened a street: a hand started or the phase moved on
StreetOpens ==
    /\ gameState' # <<>>
    /\ gameState' # gameState
    /\ gameState = <<>> \/ gameState'[1].phase # gameState[1].phase
    /\ gameState'[1].phase \in {"pre-flop", "flop", "turn", "river"}

\* C14: an accepted bet reaches at least bigBlind and an accepted raise at
\* least currentBet + minRaise, unless it takes the seat's last chips;
\* minRaise is bigBlind when a street opens, and after a raise of at least
\* minRaise it is the new target minus the previous currentBet.
C14_MinimumBetAndRaise ==
    [][ /\ StreetOpens => gameState'[1].minRaise = gameState'[1].bigBlind
        /\ \A id \in 1..MaxSeatCount :
              BetOrRaiseBy(id) =>
                 /\ (lastCall'.action = "bet" /\ GetPlayer(players', id).chips > 0)
                       => TargetReached(id) >= gameState[1].bigBlind
                 /\ (lastCall'.action = "raise" /\ GetPlayer(players', id).chips > 0)
                       => TargetReached(id) >= gameState[1].currentBet + gameState[1].minRaise
                 /\ ( /\ gameState'[1].phase = gameState[1].phase
                      /\ TargetReached(id) - gameState[1].currentBet >= gameState[1].minRaise )
                       => gameState'[1].minRaise = TargetReached(id) - gameState[1].currentBet ]_vars

\* The seat at index i of the hand's playerOrder
SeatAt(gs, ps, i) == GetPlayer(ps, gs.playerOrder[i + 1])

\* Heads-up roles of the hand gs: the dealer posts the small blind and the
\* other seat the big blind
HeadsUpBlinds(gs, ps) ==
    /\ SeatAt(gs, ps, gs.dealerIndex).isDealer
    /\ SeatAt(gs, ps, gs.dealerIndex).isSmallBlind
    /\ ~SeatAt(gs, ps, gs.dealerIndex).isBigBlind
    /\ SeatAt(gs, ps, 1 - gs.dealerIndex).isBigBlind
    /\ ~SeatAt(gs, ps, 1 - gs.dealerIndex).isSmallBlind

\* C15: in a hand of two seats the dealer is the small blind and is first
\* to act pre-flop, and the other seat is the big blind and is first to act
\* when the flop, the turn or the river opens with both seats able to act.
C15_HeadsUpOrder ==
    [][ (gameState' # <<>> /\ Len(gameState'[1].playerOrder) = 2) =>
           /\ HeadsUpBlinds(gameState'[1], players')
           /\ gameState = <<>>
                 => gameState'[1].currentPlayerIndex = gameState'[1].dealerIndex
           /\ ( /\ gameState # <<>>
                /\ gameState'[1].phase # gameState[1].phase
                /\ gameState'[1].phase \in {"flop", "turn", "river"}
                /\ \A i \in 0..1 : SeatAt(gameState'[1], players', i).status = "active" )
                 => gameState'[1].currentPlayerIndex = 1 - gameState'[1].dealerIndex ]_vars

\* C16: in every state of a hand, a seat of playerOrder that has not folded
\* is all-in exactly when its chips are 0, and no turn is given to a seat
\* without chips.
C16_AllInIffNoChips ==
    InHand =>
       /\ \A i \in 1..Len(gameState[1].playerOrder) :
             StatusOf(players, gameState[1].playerOrder[i]) # "folded"
             => ( StatusOf(players, gameState[1].playerOrder[i]) = "all-in"
                    <=> GetPlayer(players, gameState[1].playerOrder[i]).chips = 0 )
       /\ actionTimer # <<>> => GetPlayer(players, actionTimer[1].playerId).chips > 0

\* C17: while a hand is in a betting phase, currentPlayerIndex designates a
\* seat whose status is active.
C17_CurrentSeatIsActive ==
    (InHand /\ gameState[1].phase \in {"pre-flop", "flop", "turn", "river"})
    => StatusOf(players, gameState[1].playerOrder[gameState[1].currentPlayerIndex + 1])
          = "active"

\* The inter-hand delay: a hand has completed and its timer has not fired
InterHandDelay == gameState = <<>> /\ handTimers # <<>>

\* C18: during the inter-hand delay a start-game or start-next-hand intent
\* leaves seats, game state and timers as they were, and a hand is started
\* only by the inter-hand timer.
C18_StartIgnoredDuringDelay ==
    [][ InterHandDelay =>
           /\ lastCall'.op \in {"start-game", "start-next-hand"}
                 => UNCHANGED <<players, gameState, actionTimer, handTimers>>
           /\ gameState' # <<>> => lastCall'.op = "auto-start" ]_vars

\* The index in seating order of the first seat with chips after index prev,
\* going round the table
NextSeatWithChips(ps, prev) ==
    LET steps == { k \in 1..Len(ps) : ps[((prev + k) % Len(ps)) + 1].chips > 0 }
    IN  (prev + (CHOOSE k \in steps : \A j \in steps : k <= j)) % Len(ps)

\* C19: when the inter-hand timer or a start-next-hand intent starts a hand,
\* its dealer is the first seat with chips, in seating order, after the seat
\* that dealt the previous hand.
C19_DealerRotatesToNextSeatWithChips ==
    [][ ( /\ gameState = <<>> /\ gameState' # <<>>
          /\ lastCall'.op \in {"auto-start", "start-next-hand"}
          /\ \E i \in 1..Len(players) : players[i].isDealer )
        => gameState'[1].playerOrder[gameState'[1].dealerIndex + 1]
             = players[NextSeatWithChips(players, findDealerIndex(players)) + 1].id ]_vars

\* The inter-hand timer fired between hands
TimerFired == lastCall'.op = "auto-start" /\ gameState = <<>>

\* The indices of the seats with chips
SeatsWithChips(ps) == { i \in 1..Len(ps) : ps[i].chips > 0 }

\* The game-over events sent in the step
GameOverEvents == { i \in 1..Len(out') : out'[i].type = "game-over" }

\* C20: when the inter-hand timer fires between hands with exactly one seat
\* holding chips, game-over goes to the room naming that seat as winner and
\* every other seat is out; with no seat holding chips, a game-over event
\* goes to the room; in both cases no hand starts.
C20_GameOverWhenFewerThanTwoSeats ==
    [][ (TimerFired /\ Cardinality(SeatsWithChips(players)) < 2) =>
           /\ gameState' = <<>>
           /\ actionTimer' = <<>>
           /\ GameOverEvents # {}
           /\ \A i \in SeatsWithChips(players) :
                 /\ \A e \in GameOverEvents : out'[e].winner.id = players[i].id
                 /\ \A k \in 1..Len(players') :
                       players'[k].id # players[i].id => players'[k].status = "out" ]_vars

\* C21: a hand is created only when two or more seats hold chips, and its
\* playerOrder is exactly the seats holding chips, in seating order.
C21_HandOfSeatsWithChips ==
    [][ (gameState = <<>> /\ gameState' # <<>>) =>
           /\ Cardinality(SeatsWithChips(players)) >= 2
           /\ gameState'[1].playerOrder
                = SelectSeq(PlayerIds(players),
                            LAMBDA id : GetPlayer(players, id).chips > 0) ]_vars

\* C22: while a hand is in progress every seat of its playerOrder is still
\* in room.players, whatever connections closed and whatever leave-room
\* intents arrived.
C22_SeatsOfHandStayInRoom ==
    InHand => Range(gameState[1].playerOrder) \subseteq Range(PlayerIds(players))

\* C23: the room leaves the registry only in a step that takes its last seat
\* while no hand is in progress, it does leave the registry in such a step,
\* and a registered room has a seat.
C23_RoomRemovedWithLastSeat ==
    [][ /\ (RoomId \in rooms /\ RoomId \notin rooms')
              => (players' = <<>> /\ gameState = <<>>)
        /\ (RoomId \in rooms /\ players' = <<>> /\ gameState = <<>>)
              => RoomId \notin rooms'
        /\ RoomId \in rooms' => players' # <<>> ]_vars

\* A join-room intent was turned down: its sender alone got an error and
\* nothing else changed
JoinRefused ==
    /\ Len(out') = 1
    /\ out'[1].type = "error"
    /\ out'[1].to \in Conns
    /\ UNCHANGED <<players, gameState, clients, rooms, actionTimer, handTimers,
                   seatsCreated>>

\* A join-room intent added one seat to a registered room that was not
\* full and had no hand in progress
JoinSeated ==
    /\ RoomId \in rooms
    /\ Len(players) < MaxPlayers
    /\ gameState = <<>>
    /\ Len(players') = Len(players) + 1
    /\ SubSeq(players', 1, Len(players)) = players
    /\ UNCHANGED <<gameState, rooms>>

\* C24: a join-room intent either seats its sender in a registered room
\* that is not full and has no hand in progress, or is answered with an
\* error to its sender and changes nothing; a room never has more than
\* maxPlayers seats, and no seat is added while a hand is in progress.
C24_JoinOnlyBetweenHandsAndBelowCapacity ==
    [][ /\ lastCall'.op = "join-room" => (JoinSeated \/ JoinRefused)
        /\ Len(players') <= MaxPlayers
        /\ gameState # <<>>
              => Range(PlayerIds(players')) \subseteq Range(PlayerIds(players)) ]_vars

\* A join-room intent found the room full and was answered with an error
C24_Witness ==
    /\ lastCall.op = "join-room"
    /\ Len(players) = MaxPlayers
    /\ Len(out) = 1 /\ out[1].type = "error" /\ out[1].message = "Room is full"

\* The step handled an intent of connection ws naming a room that is not
\* registered, or a seat that is not seated in the registered room
NamesUnknown(ws) ==
    \/ \E roomId \in LobbyRoomIds \ rooms :
          \/ JoinRoom(ws, roomId)
          \/ \E seed \in GameSeeds : StartGameIn(ws, roomId, 0, seed)
          \/ \E playerId \in Range(PlayerIds(players)) \cup UnknownIds :
                LeaveRoom(ws, roomId, playerId)
    \/ \E playerId \in UnknownIds :
          /\ RoomId \in rooms
          /\ \/ LeaveRoom(ws, RoomId, playerId)
             \/ ws = SenderOf(playerId) /\ PlayerAction(playerId, "fold", 0)

\* C25: an intent naming an unknown room, or a seat that is not seated in
\* its room, is answered with one error to its sender; nothing is sent to
\* anyone else, and rooms, seats and connection bindings stay as they were.
C25_UnknownRoomOrSeatIsRefused ==
    [][ \A ws \in Conns :
           NamesUnknown(ws) =>
              /\ Len(out') = 1 /\ out'[1].type = "error" /\ out'[1].to = ws
              /\ UNCHANGED <<players, clients, rooms>> ]_vars

\* The positions in msgs of the events of the given types sent to ws
EventsTo(msgs, ws, types) ==
    { i \in 1..Len(msgs) : msgs[i].to = ws /\ msgs[i].type \in types }

\* C26: the events of a handler reach each connection in the order `out`
\* holds them. After an accepted action every connection that is sent
\* action-required or hand-complete is first sent the game-updated showing
\* the action; a hand ends only in a step that sends hand-complete to each
\* connection of the room, and no game-started is sent while a hand is in
\* progress, so hand-complete of a hand precedes game-started of the next.
C26_EventsInOrder ==
    [][ /\ Accepted(lastCall') =>
              \A ws \in Conns :
                 \A i \in EventsTo(out', ws, {"action-required", "hand-complete"}) :
                    \E k \in EventsTo(out', ws, {"game-updated"}) : k < i
        /\ (gameState # <<>> /\ gameState' = <<>>) =>
              \A c \in Range(RoomClients(Server)) :
                 EventsTo(out', c.ws, {"hand-complete"}) # {}
        /\ gameState # <<>> =>
              \A ws \in Conns : EventsTo(out', ws, {"game-started"}) = {} ]_vars

\* The second hand of a game has started and the seat to act has been told
C26_Witness ==
    /\ handsStarted = 2
    /\ lastCall.op = "auto-start"
    /\ \A ws \in Conns :
          \E i \in EventsTo(out, ws, {"game-started"}) :
             \E k \in EventsTo(out, ws, {"action-required"}) : i < k

\* The winners named by the hand-complete events among msgs
WinnersAnnounced(msgs) ==
    UNION { { msgs[i].winners[k].playerId : k \in 1..Len(msgs[i].winners) } :
              i \in { j \in 1..Len(msgs) : msgs[j].type = "hand-complete" } }

\* C27: in a step of a hand the seats that are active or all-in gain no
\* member; the seat of an accepted action had not folded, and no seat that
\* has folded is named a winner.
C27_FoldIsFinal ==
    [][ gameState # <<>> =>
           /\ SeatsInHand' \subseteq SeatsInHand
           /\ Accepted(lastCall') => StatusOf(players, lastCall'.playerId) # "folded"
           /\ \A id \in WinnersAnnounced(out') : StatusOf(players', id) # "folded" ]_vars

\* A hand of three seats went to a showdown after one of them had folded
C27_Witness ==
    /\ Len(players) = 3
    /\ \E i \in 1..Len(players) : players[i].status = "folded"
    /\ \E i \in 1..Len(out) : out[i].type = "hand-complete" /\ out[i].isShowdown
    /\ WinnersAnnounced(out) # {}


\* The seat that posted the big blind of the hand gs
BigBlindSeat(gs, ps) ==
    CHOOSE id \in Range(gs.playerOrder) : GetPlayer(ps, id).isBigBlind

\* Pre-flop, nobody has raised and the big blind has not acted yet
BigBlindOption(gs, ps) ==
    /\ gs.phase = "pre-flop"
    /\ gs.currentBet = BigBlind
    /\ BigBlindSeat(gs, ps) \notin gs.playersActed
    /\ StatusOf(ps, BigBlindSeat(gs, ps)) # "folded"

\* C28: pre-flop, while the other seats only call the big blind or fold, the
\* betting round stays open until the big-blind seat has acted, and when the
\* turn reaches the big-blind seat it is sent action-required with check and
\* without call.
C28_BigBlindOption ==
    [][ (/\ gameState # <<>>
         /\ BigBlindOption(gameState[1], players)
         /\ Accepted(lastCall')
         /\ lastCall'.playerId # BigBlindSeat(gameState[1], players)
         /\ gameState' # <<>>) =>
           /\ gameState'[1].phase = "pre-flop"
           /\ (BigBlindOption(gameState'[1], players')
               /\ CurrentSeat' = {BigBlindSeat(gameState[1], players)})
                 => \E i \in 1..Len(out') :
                       /\ out'[i].type = "action-required"
                       /\ out'[i].playerId = BigBlindSeat(gameState[1], players)
                       /\ "check" \in Range(out'[i].validActions)
                       /\ "call" \notin Range(out'[i].validActions) ]_vars

\* C28 for the hands whose big-blind seat could post the whole big blind
C28_FullBigBlind ==
    [][ (/\ gameState # <<>>
         /\ BigBlindOption(gameState[1], players)
         /\ gameState[1].roundBets[BigBlindSeat(gameState[1], players)] = BigBlind
         /\ Accepted(lastCall')
         /\ lastCall'.playerId # BigBlindSeat(gameState[1], players)
         /\ gameState' # <<>>) =>
           /\ gameState'[1].phase = "pre-flop"
           /\ (BigBlindOption(gameState'[1], players')
               /\ CurrentSeat' = {BigBlindSeat(gameState[1], players)})
                 => \E i \in 1..Len(out') :
                       /\ out'[i].type = "action-required"
                       /\ out'[i].playerId = BigBlindSeat(gameState[1], players)
                       /\ "check" \in Range(out'[i].validActions)
                       /\ "call" \notin Range(out'[i].validActions) ]_vars


\* The seats of eligible that hold the best hand among them
TiedSeats(eligible, handCache) ==
    { id \in eligible : \A o \in eligible :
                           ~ScoreGreater(handCache[o].score, handCache[id].score) }

\* Number of seats passed going clockwise from the dealer to the seat id
ClockwiseFromDealer(gs, id) ==
    LET n == Len(gs.playerOrder)
        i == (CHOOSE k \in 1..n : gs.playerOrder[k] = id) - 1
    IN  (i + n - gs.dealerIndex - 1) % n

\* What the seat id receives from pot when the tied seats share it equally
\* and the odd chips go to the tied seat first clockwise from the dealer
ShareOf(gs, tied, amount, id) ==
    IF id \notin tied THEN 0
    ELSE (amount \div Cardinality(tied))
         + (IF \A o \in tied : ClockwiseFromDealer(gs, id) <= ClockwiseFromDealer(gs, o)
            THEN amount % Cardinality(tied) ELSE 0)

\* The seats tied for each of pots
TiedOf(pots, handCache) ==
    [k \in 1..Len(pots) |->
        TiedSeats(Range(pots[k].eligiblePlayerIds) \cap DOMAIN handCache, handCache)]

RECURSIVE SharesOf(_, _, _, _, _)
SharesOf(gs, pots, tied, k, id) ==
    IF k > Len(pots) THEN 0
    ELSE ShareOf(gs, tied[k], pots[k].amount, id) + SharesOf(gs, pots, tied, k + 1, id)

\* The winners of the showdown of the hand gs as [playerId, amount]
SplitOf(gs, pots, tied) ==
    { [playerId |-> id, amount |-> SharesOf(gs, pots, tied, 1, id)] :
        id \in UNION { tied[k] : k \in 1..Len(pots) } }

SplitClockwise(gs, ps) ==
    SplitOf(gs, calculateSidePots(gs.playerContributions, ps),
            TiedOf(calculateSidePots(gs.playerContributions, ps),
                   handCacheOf(gs, ps, getActivePlayers(gs, ps))))

\* Some pot is shared by tied seats and leaves odd chips
OddChips(pots, tied) ==
    \E k \in 1..Len(pots) :
       Cardinality(tied[k]) > 1 /\ pots[k].amount % Cardinality(tied[k]) # 0

\* The winners of the hand-complete events among msgs as [playerId, amount]
SplitSent(msgs) ==
    UNION { { [playerId |-> msgs[i].winners[k].playerId,
               amount |-> msgs[i].winners[k].amount] : k \in 1..Len(msgs[i].winners) } :
              i \in { j \in 1..Len(msgs) : msgs[j].type = "hand-complete" } }

\* The pot of the game-updated events among msgs
PotSent(msgs) ==
    { msgs[j].gameState.pot : j \in { i \in 1..Len(msgs) : msgs[i].type = "game-updated" } }

\* r is what processAction returned to the handler that sent msgs, and the
\* winners sent are the clockwise split of the hand r left
SplitAgrees(r, msgs) ==
    (r.result.success /\ PotSent(msgs) = {r.gs.pot})
       => SplitSent(msgs) = SplitClockwise(r.gs, r.players)

\* processAction for the accepted action call, were amount the amount of the
\* intent
HandAfter(call, amount) ==
    processAction(gameState[1], players, call.playerId, call.action, amount)

\* C29: at a showdown every pot is shared equally by the eligible seats
\* tied for the best hand, each receiving floor(amount / number of tied
\* seats), and the odd chips of the pot go to the tied seat that comes first
\* clockwise from the dealer.
C29_TiesSplitOddChipsClockwise ==
    [][ (/\ gameState # <<>>
         /\ Accepted(lastCall')
         /\ \E i \in 1..Len(out') : out'[i].type = "hand-complete" /\ out'[i].isShowdown)
           => \A amount \in Amounts : SplitAgrees(HandAfter(lastCall', amount), out') ]_vars

\* The stacks the seats of the single hand of Spec were dealt in with
StacksDealt ==
    CHOOSE stacks \in InitStacks : Len(stacks) = Len(players) /\ SumSeq(stacks) = startTotal

\* The pots of the hand that the event sent reports, from what each seat
\* has paid in since the deal
PotsSent(sent) ==
    calculateSidePots([k \in 1..Len(players) |->
                         [k |-> players[k].id,
                          v |-> StacksDealt[k] - sent.gameState.players[k].chips]],
                      players)

\* The hands shown down on the board that the event sent reports
HandsSent(sent) ==
    [id \in { players[k].id : k \in { x \in 1..Len(players) : players[x].status # "folded" } } |->
        evaluateHand(GetPlayer(players, id).hand \o sent.gameState.communityCards, id)]

\* A showdown at which seats tied for a pot that left odd chips
C29_Witness ==
    /\ Accepted(lastCall)
    /\ \E i \in 1..Len(out) : out[i].type = "hand-complete" /\ out[i].isShowdown
    /\ \E j \in 1..Len(out) :
          /\ out[j].type = "game-updated"
          /\ OddChips(PotsSent(out[j]), TiedOf(PotsSent(out[j]), HandsSent(out[j])))


ValuesOf(cards) == { cardValue(cards[i]) : i \in 1..Len(cards) }

\* cards hold the five ranks of vals in one suit
SuitedRun(cards, vals) ==
    \E s \in 0..3 : \A v \in vals : \E i \in 1..Len(cards) :
        cardValue(cards[i]) = v /\ cardSuit(cards[i]) = s

\* The best five cards of cards are a run of vals that the rank above does
\* not extend: no rank comes three times, and no suit five times unless the
\* run itself is suited
BestIsRun(cards, vals, above) ==
    /\ vals \subseteq ValuesOf(cards)
    /\ above \notin ValuesOf(cards)
    /\ \A v \in ValuesOf(cards) :
          Cardinality({ i \in 1..Len(cards) : cardValue(cards[i]) = v }) <= 2
    /\ \/ SuitedRun(cards, vals)
       \/ \A s \in 0..3 : Cardinality({ i \in 1..Len(cards) : cardSuit(cards[i]) = s }) < 5

IsWheel(cards) == BestIsRun(cards, {14, 2, 3, 4, 5}, 6)

IsSixHigh(cards) == BestIsRun(cards, {2, 3, 4, 5, 6}, 7)

\* evaluateHand for each of the inputs, in the order given
EvalScores == [cards \in EvalHands |-> evaluateHand(cards, 0).score]

\* C30: a wheel is scored as a straight, or a straight flush when suited,
\* with high card 5: below every six-high straight of the same category and
\* above every hand of a lower category, whose kickers stay below 10^10; and
\* the score and rank of any input do not depend on the order of its cards.
C30_WheelIsFiveHigh ==
    potResult[1].result # <<>> =>
       /\ potResult[1].result[1].score = potResult[1].first[1].score
       /\ potResult[1].result[1].rank = potResult[1].first[1].rank
       /\ potResult[1].result[1].score.low \div 100000 < 100000
       /\ IsWheel(potResult[1].cards) =>
             /\ potResult[1].result[1].score
                   = Score(IF SuitedRun(potResult[1].cards, {14, 2, 3, 4, 5}) THEN 8 ELSE 4, 5)
             /\ \A other \in EvalHands :
                   /\ (IsSixHigh(other)
                       /\ EvalScores[other].cat = potResult[1].result[1].score.cat)
                         => ScoreGreater(EvalScores[other], potResult[1].result[1].score)
                   /\ EvalScores[other].cat < potResult[1].result[1].score.cat
                         => /\ ScoreGreater(potResult[1].result[1].score, EvalScores[other])
                            /\ EvalScores[other].low \div 100000 < 100000

\* A seven-card input holding a wheel was evaluated with its cards in
\* reverse order
C30_Witness ==
    /\ potResult[1].result # <<>>
    /\ Len(potResult[1].cards) = 7
    /\ IsWheel(potResult[1].cards)
    /\ \E first \in EvalHands :
          /\ Len(first) = 7
          /\ potResult[1].cards = [i \in 1..7 |-> first[8 - i]]


\* C31: armed timers firing, a hand in progress is eventually completed,
\* whatever intents are accepted or rejected in between.
C31_HandsComplete == (gameState # <<>>) ~> (gameState = <<>>)


\* The street after phase
FollowingPhase(phase) ==
    CASE phase = "pre-flop" -> "flop"
      [] phase = "flop" -> "turn"
      [] phase = "turn" -> "river"
      [] phase = "river" -> "showdown"
      [] OTHER -> "none"

\* The number of community cards on the board in phase
BoardSize(phase) ==
    CASE phase = "pre-flop" -> 0
      [] phase = "flop" -> 3
      [] phase = "turn" -> 4
      [] OTHER -> 5

\* The hand moved from the street before to the next one and opened it
PhaseAdvanced(before, after) ==
    /\ after.phase = FollowingPhase(before.phase)
    /\ \A id \in DOMAIN after.roundBets : after.roundBets[id] = 0
    /\ after.playersActed = {}
    /\ after.currentBet = 0
    /\ after.minRaise = after.bigBlind

\* The game-updated event sent reports the street before or the next one,
\* opened, with the board of its street
PhaseSent(before, sent) ==
    /\ \/ sent.phase = before.phase
       \/ /\ sent.phase = FollowingPhase(before.phase)
          /\ sent.currentBet = 0
          /\ sent.minRaise = before.bigBlind
          /\ \A i \in 1..Len(sent.players) : sent.players[i].bet = 0
    /\ Len(sent.communityCards) = BoardSize(sent.phase)

PhaseSentOrComplete(before, sent) ==
    \/ PhaseSent(before, sent)
    \/ /\ sent.phase = "complete"
       /\ sent.communityCards = before.communityCards

C33_CurrentBetIsHighest ==
    [][ gameState' # <<>> =>
           /\ \A id \in DOMAIN gameState'[1].roundBets :
                 gameState'[1].roundBets[id] <= gameState'[1].currentBet
           /\ (gameState # <<>> /\ gameState'[1].phase = gameState[1].phase)
                 => gameState'[1].currentBet >= gameState[1].currentBet ]_vars

\* A seat went all-in for less than the bet that another seat had raised
C33_Witness ==
    /\ gameState # <<>>
    /\ Accepted(lastCall)
    /\ lastCall.action = "all-in"
    /\ gameState[1].currentBet > BigBlind
    /\ gameState[1].roundBets[lastCall.playerId] < gameState[1].currentBet


\* The hand once the switch of processAction has applied the accepted
\* action call, were amount the amount of the intent
AppliedBy(call, amount) ==
    applyAction([gameState[1] EXCEPT !.playersActed = @ \cup {call.playerId}], players,
                GetPlayer(players, call.playerId), call.action, amount)

\* amount can have been the amount of the accepted intent call that had the
\* handler send msgs
AmountOf(call, amount, msgs) ==
    call.action \in {"bet", "raise"}
       => /\ ~betRejected(gameState[1], GetPlayer(players, call.playerId), call.action, amount)
          /\ PotSent(msgs) = {AppliedBy(call, amount).gs.pot}

\* At least two seats have not folded, and every active seat has acted and
\* has matched currentBet
RoundClosed(gs, ps) ==
    /\ Cardinality({ id \in Range(gs.playerOrder) : StatusOf(ps, id) # "folded" }) >= 2
    /\ \A id \in Range(gs.playerOrder) :
          StatusOf(ps, id) = "active"
             => id \in gs.playersActed /\ gs.roundBets[id] = gs.currentBet

\* Index of the first active seat after index from in playerOrder, wrapping
NextActiveSeat(gs, ps, from) ==
    LET n == Len(gs.playerOrder)
        steps == { k \in 1..n : StatusOf(ps, gs.playerOrder[((from + k) % n) + 1]) = "active" }
    IN  (from + (CHOOSE k \in steps : \A l \in steps : k <= l)) % n

\* Some game-updated event among msgs reports the street after phase
StreetAfterSent(phase, msgs) ==
    \E i \in 1..Len(msgs) :
        msgs[i].type = "game-updated" /\ msgs[i].gameState.phase = FollowingPhase(phase)

\* The step agrees with the hand a that the applied action left
TurnOrPhase(a, msgs) ==
    /\ StreetAfterSent(gameState[1].phase, msgs) <=> RoundClosed(a.gs, a.players)
    /\ (/\ ~RoundClosed(a.gs, a.players)
        /\ Cardinality({ id \in Range(a.gs.playerOrder) :
                           StatusOf(a.players, id) # "folded" }) >= 2)
          => /\ gameState' # <<>>
             /\ gameState'[1].phase = gameState[1].phase
             /\ gameState'[1].currentPlayerIndex
                   = NextActiveSeat(a.gs, a.players, gameState[1].currentPlayerIndex)

\* C34: an accepted action moves the hand to the next street exactly when it
\* leaves at least two seats not folded and every active seat in the acted
\* set with roundBets equal to currentBet; otherwise, with two seats or more
\* not folded, the turn passes to the next active seat of playerOrder,
\* wrapping around and passing over folded and all-in seats.
C34_AdvanceIffRoundClosed ==
    [][ (gameState # <<>> /\ Accepted(lastCall')) =>
           \A amount \in Amounts :
               AmountOf(lastCall', amount, out')
                  => TurnOrPhase(AppliedBy(lastCall', amount), out') ]_vars

\* The turn wrapped around past a folded seat
C34_Witness ==
    /\ gameState # <<>>
    /\ Accepted(lastCall)
    /\ ~lastCall.result.roundComplete
    /\ Len(players) = 3
    /\ \E i \in 1..3 : players[i].status = "folded"
    /\ gameState[1].playerOrder[gameState[1].currentPlayerIndex + 1] < lastCall.playerId
    /\ StatusOf(players, gameState[1].playerOrder[gameState[1].currentPlayerIndex + 1]) = "active"


\* C35: a hand after the first is started only by the inter-hand timer of the
\* most recent hand-complete, once its delay has run: no hand starts while
\* that timer is still pending, and a timer left by an earlier hand-complete
\* starts no hand and supplies no dealer index.
C35_OneStartPerHandComplete ==
    [][ (handsStarted >= 1 /\ gameState = <<>> /\ gameState' # <<>>) =>
           /\ lastCall'.op = "auto-start"
           /\ Len(handTimers) = 1 ]_vars

\* C35, its second part alone: a timer that fires while a later one is
\* pending starts no hand
C35_StaleTimerStartsNoHand ==
    [][ (lastCall'.op = "auto-start" /\ Len(handTimers) > 1) => gameState' = gameState ]_vars


\* The step ran an intent that named a seat and came from a connection that
\* was not bound to that seat
ForeignIntent ==
    /\ lastCall'.op \in {"player-action", "leave-room"}
    /\ "ws" \in DOMAIN lastCall'
    /\ \A i \in 1..Len(clients) :
          clients[i].ws = lastCall'.ws => clients[i].playerId # <<lastCall'.playerId>>

\* C36: a player-action or leave-room intent that names a seat and arrives
\* on a connection not bound to that seat leaves the seats and the hand as
\* they were: it makes no seat act and removes no seat from the room.
C36_IntentsOnlyFromBoundConnection ==
    [][ ForeignIntent => UNCHANGED <<players, gameState>> ]_vars


\* C37: a room has at most one turn timer armed; an armed timer is for the
\* seat at currentPlayerIndex of the hand in progress, and none is armed
\* when no hand is in progress or the room is no longer registered; clearing
\* when none is armed changes nothing.
C37_OneTimerForCurrentSeat ==
    /\ Len(actionTimer) <= 1
    /\ actionTimer # <<>> =>
          /\ RoomId \in rooms
          /\ gameState # <<>>
          /\ actionTimer[1].playerId
                = gameState[1].playerOrder[gameState[1].currentPlayerIndex + 1]
    /\ actionTimer = <<>> => clearActionTimer(Server) = Server


\* The connections bound to the seat id
ConnsOf(id) == { i \in 1..Len(clients) : clients[i].playerId = <<id>> }

\* C38: a connection is bound to at most one seat and a seat to at most one
\* connection, and between hands every seat of the room is bound to an open
\* connection: a connection that joins while it is seated leaves no seat
\* behind without a connection.
C38_SeatsAndConnectionsOneToOne ==
    /\ \A i \in 1..Len(clients) : Len(clients[i].playerId) <= 1
    /\ \A i \in 1..Len(players) : Cardinality(ConnsOf(players[i].id)) <= 1
    /\ gameState = <<>> =>
          \A i \in 1..Len(players) : ConnsOf(players[i].id) # {}


\* C39: the first hand of a room has handNumber 1 and every later hand has
\* the handNumber of the hand before it plus 1.
C39_HandNumberCountsHands ==
    [][ (gameState = <<>> /\ gameState' # <<>>)
           => gameState'[1].handNumber = handsStarted + 1 ]_vars


\* C39, for the hands that the inter-hand timer starts: the handNumber of
\* such a hand is 1 more than the number of hands started in the room before
\* it.
C39_TimerStartedHandNumber ==
    [][ (gameState = <<>> /\ gameState' # <<>> /\ lastCall'.op = "auto-start")
           => gameState'[1].handNumber = handsStarted + 1 ]_vars


RECURSIVE HoleCards(_, _)
\* The hole cards of the seats order of the hand, one seat after the other
HoleCards(ps, order) ==
    IF order = <<>> THEN <<>>
    ELSE GetPlayer(ps, Head(order)).hand \o HoleCards(ps, Tail(order))

\* Every card in play: hole cards, board and what is left of the deck
CardsInPlay ==
    HoleCards(players, gameState[1].playerOrder)
       \o gameState[1].communityCards \o gameState[1].deck

\* C40: during a hand the hole cards of the seats in playerOrder, the
\* community cards and the remaining deck are pairwise distinct and are
\* together the 52 cards, and every seat in playerOrder holds 2 hole cards.
C40_CardsAreTheDeck ==
    InHand =>
       /\ Len(CardsInPlay) = NumCards
       /\ Range(CardsInPlay) = Range(UnshuffledDeck)
       /\ \A id \in Range(gameState[1].playerOrder) :
             Len(GetPlayer(players, id).hand) = 2

\* The river has been dealt to three seats
C40_Witness ==
    /\ InHand
    /\ gameState[1].phase = "river"
    /\ Len(gameState[1].playerOrder) = 3
    /\ Len(gameState[1].communityCards) = 5
    /\ Len(gameState[1].deck) = NumCards - 11


\* The steps of Turns that are a TimerStep are the steps of the turn timer
TimerStepIsActionTimeout ==
    [][ TimerStep <=> lastCall'.op = "action-timeout" ]_vars

\* The turn timer fires finitely many times in a hand, so that fairness to
\* the timer steps that change lastCall is fairness to all of them
TimerStepsAreFinite == <>[][lastCall'.op # "action-timeout"]_vars
============================================================================
